---- MODULE Spec2Model ----
(***************************************************************************)
(* Model of the AI Creative Collaborator backend (src/src/backend/main.py  *)
(* and src/api/index.py): the phase selector of POST /chat, the JSON       *)
(* extraction and validation of POST /generate-prd, and the scaffold       *)
(* generator of POST /create-project.                                      *)
(*                                                                         *)
(* Text is a sequence of lexemes.  A lexeme is one structural character    *)
(* of JSON, one blank, the markdown fence marker, or a word; every string  *)
(* operation of the code (strip, startswith, re.search, replace, re.sub,   *)
(* json.loads, lower) is modelled on that sequence.                        *)
(***************************************************************************)
EXTENDS Integers, Sequences, FiniteSets, TLC

VARIABLES
    pc,        \* position of the request handler: "pending" or "done"
    op,        \* the endpoint that handled the request
    messages,  \* request.messages of /chat and /generate-prd
    provider,  \* what client.chat does: [outcome, content]
    origin,    \* how the provider composed its reply
    sent,      \* chat_messages handed to client.chat
    parsed,    \* spec_json after json.loads in generate_prd
    response,  \* the HTTP response
    spec,      \* body of the /create-project request
    fs,        \* filesystem below the working directory
    http,      \* the request line: method, path, CORS preflight headers
    calls,     \* number of client.chat calls made for the request
    log,       \* the first successful create-project: its body and what it left
    req,       \* create-project requests in flight in concurrent workers
    writer,    \* for every file, the request that wrote it last
    session,   \* st.session_state of the browser client
    shown,     \* what the client shows the user for the last event (st.error)
    proc       \* the module globals of the server process

vars == <<pc, op, messages, provider, origin, sent, parsed, response, spec, fs,
          http, calls, log, req, writer, session, shown, proc>>

-----------------------------------------------------------------------------
(* Lexemes *)

QUOTE == "dq"   \* the double-quote character
FENCE == "fence"   \* the markdown fence marker, three backticks
TAG == "json"   \* the language tag that may follow the marker
BLANK == " "

\* the lexemes of t at the positions in keep, in order
Keep(t, keep) ==
    LET indexed == [i \in 1..Len(t) |-> <<i, t[i]>>]
        kept == SelectSeq(indexed, LAMBDA p : p[1] \in keep)
    IN  [k \in 1..Len(kept) |-> kept[k][2]]

\* str.strip(): leading and trailing whitespace removed
Strip(t) ==
    LET solid == {i \in 1..Len(t) : t[i] # BLANK}
        lo == CHOOSE i \in solid : \A j \in solid : i <= j
        hi == CHOOSE i \in solid : \A j \in solid : j <= i
    IN  IF solid = {} THEN <<>> ELSE SubSeq(t, lo, hi)

\* str.startswith of an opening brace
StartsWithBrace(t) == t # <<>> /\ t[1] = "{"

\* re.search for an opening brace, anything, a closing brace: greedy,
\* so from the first opening brace to the last closing brace
RegexSearchObject(t) ==
    LET opens == {i \in 1..Len(t) : t[i] = "{"}
        first == CHOOSE i \in opens : \A j \in opens : i <= j
        closes == {i \in 1..Len(t) : t[i] = "}" /\ i > first}
        last == CHOOSE i \in closes : \A j \in closes : j <= i
    IN  IF opens = {} \/ closes = {}
        THEN [found |-> FALSE, text |-> <<>>]
        ELSE [found |-> TRUE, text |-> SubSeq(t, first, last)]

\* text.replace of the tagged fence: every fence marker directly followed by the tag
RemoveTaggedFences(t) ==
    LET tagged == {i \in 1..(Len(t) - 1) : t[i] = FENCE /\ t[i + 1] = TAG}
    IN  Keep(t, {i \in 1..Len(t) : i \notin tagged /\ (i - 1) \notin tagged})

\* text.replace of the bare fence marker
RemoveBareFences(t) == SelectSeq(t, LAMBDA x : x # FENCE)

\* both replacements, in the order of the code
RemoveFences(t) == RemoveBareFences(RemoveTaggedFences(t))

\* index of the first non-blank lexeme at or after i (Len(t)+1 when none)
SkipWs(t, i) ==
    CHOOSE j \in i..(Len(t) + 1) :
        /\ \A k \in i..(j - 1) : t[k] = BLANK
        /\ (j = Len(t) + 1 \/ t[j] # BLANK)

\* re.sub of a comma followed by blanks and a closing brace or bracket
RemoveTrailingCommas(t) ==
    LET trailing(i) ==
            /\ t[i] = ","
            /\ SkipWs(t, i + 1) <= Len(t)
            /\ t[SkipWs(t, i + 1)] \in {"}", "]"}
    IN  Keep(t, {i \in 1..Len(t) : ~trailing(i)})

\* text[:n]
Take(t, n) == SubSeq(t, 1, IF Len(t) < n THEN Len(t) ELSE n)

-----------------------------------------------------------------------------
(* JSON values: [s |-> content] a string, [n |-> lexeme] a number,         *)
(* [a |-> sequence] an array, [o |-> function from keys] an object.        *)

Str(content) == [s |-> content]
Arr(items) == [a |-> items]
Obj(members) == [o |-> members]
NoMembers == [k \in {} |-> Str(<<>>)]
Key(name) == <<name>>

IsStr(v) == DOMAIN v = {"s"}
IsArr(v) == DOMAIN v = {"a"}
IsObj(v) == DOMAIN v = {"o"}

NumberLexemes == {"1"}

ParseFail == [ok |-> FALSE, val |-> Str(<<>>), pos |-> 0]
ParseOk(v, p) == [ok |-> TRUE, val |-> v, pos |-> p]

Is(t, i, x) == i <= Len(t) /\ t[i] = x

\* a string literal starting at the quote t[i]: everything up to the next quote
ParseString(t, i) ==
    LET ends == {j \in (i + 1)..Len(t) : t[j] = QUOTE}
        j == CHOOSE e \in ends : \A f \in ends : e <= f
    IN  IF ~Is(t, i, QUOTE) \/ ends = {} THEN ParseFail
        ELSE ParseOk(Str(SubSeq(t, i + 1, j - 1)), j + 1)

RECURSIVE ParseValue(_, _), ParseMembers(_, _, _), ParseElements(_, _, _)

\* one JSON value starting at t[i] (blanks already skipped)
ParseValue(t, i) ==
    IF i > Len(t) THEN ParseFail
    ELSE IF t[i] = "{"
    THEN LET j == SkipWs(t, i + 1)
         IN  IF Is(t, j, "}") THEN ParseOk(Obj(NoMembers), j + 1)
             ELSE ParseMembers(t, j, NoMembers)
    ELSE IF t[i] = "["
    THEN LET j == SkipWs(t, i + 1)
         IN  IF Is(t, j, "]") THEN ParseOk(Arr(<<>>), j + 1)
             ELSE ParseElements(t, j, <<>>)
    ELSE IF t[i] = QUOTE THEN ParseString(t, i)
    ELSE IF t[i] \in NumberLexemes THEN ParseOk([n |-> t[i]], i + 1)
    ELSE ParseFail

\* members of an object from t[i] on: key, colon, value, then a comma or the brace;
\* a repeated key keeps its last value, as a Python dict does
ParseMembers(t, i, acc) ==
    LET k == ParseString(t, i)
        c == SkipWs(t, k.pos)
        v == ParseValue(t, SkipWs(t, c + 1))
        e == SkipWs(t, v.pos)
        acc2 == (k.val.s :> v.val) @@ acc
    IN  IF ~k.ok \/ ~Is(t, c, ":") THEN ParseFail
        ELSE IF ~v.ok THEN ParseFail
        ELSE IF Is(t, e, ",") THEN ParseMembers(t, SkipWs(t, e + 1), acc2)
        ELSE IF Is(t, e, "}") THEN ParseOk(Obj(acc2), e + 1)
        ELSE ParseFail

\* elements of an array from t[i] on
ParseElements(t, i, acc) ==
    LET v == ParseValue(t, i)
        e == SkipWs(t, v.pos)
        acc2 == Append(acc, v.val)
    IN  IF ~v.ok THEN ParseFail
        ELSE IF Is(t, e, ",") THEN ParseElements(t, SkipWs(t, e + 1), acc2)
        ELSE IF Is(t, e, "]") THEN ParseOk(Arr(acc2), e + 1)
        ELSE ParseFail

\* json.loads(text): one value, blanks around it, nothing else
JsonLoads(t) ==
    LET v == ParseValue(t, SkipWs(t, 1))
    IN  IF v.ok /\ SkipWs(t, v.pos) = Len(t) + 1 THEN v ELSE ParseFail

-----------------------------------------------------------------------------
(* POST /generate-prd *)

None == [none |-> TRUE]

required_fields ==
    <<"title", "description", "features", "technologies", "architecture",
      "implementationPlan">>

FRONTEND_URL == <<"http://localhost:3000">>
BACKEND_URL == <<"http://localhost:3001">>
PROJECTS_DIR == "generated_projects"

DIAG_LEN == 200

\* str.lower() of one lexeme
Lower(x) ==
    CASE x = "Task" -> "task"
      [] x = "Tracker" -> "tracker"
      [] x = "My" -> "my"
      [] x = "Big" -> "big"
      [] x = "App" -> "app"
      [] OTHER -> x

\* the slug without the lower-casing
SlugKeepingCase(title) ==
    [i \in 1..Len(title) |-> IF title[i] = BLANK THEN "_" ELSE title[i]]

\* line 346 and line 367: title.lower(), then every blank replaced by an underscore
Slug(title) ==
    [i \in 1..Len(title) |-> IF Lower(title[i]) = BLANK THEN "_" ELSE Lower(title[i])]

\* the projectLinks object of lines 343-347
ProjectLinks(title) ==
    Obj((Key("frontend") :> Str(FRONTEND_URL))
        @@ (Key("backend") :> Str(BACKEND_URL))
        @@ (Key("repository") :> Str(<<PROJECTS_DIR, "/">> \o Slug(title))))

Detail(error, fields, text) == [error |-> error, fields |-> fields, text |-> text]
Http500(detail) == [status |-> 500, body |-> None, detail |-> detail]
Http200(body) == [status |-> 200, body |-> body, detail |-> Detail("", <<>>, <<>>)]
NoResponse == [status |-> 0, body |-> None, detail |-> Detail("", <<>>, <<>>)]

\* the response of the framework to a body that does not fit the model of the
\* endpoint (lines 44-57): status 422, the detail a list with one entry per
\* offending field
Http422(fields) == [status |-> 422, body |-> None, detail |-> [errors |-> fields]]

\* the check of line 338 that forgets the last required field
MissingFieldsButLast(spec_json) ==
    SelectSeq(SubSeq(required_fields, 1, Len(required_fields) - 1),
              LAMBDA f : Key(f) \notin DOMAIN spec_json.o)

\* line 338: the required fields that are not keys of spec_json, in order
MissingFields(spec_json) ==
    SelectSeq(required_fields, LAMBDA f : Key(f) \notin DOMAIN spec_json.o)

\* lines 336-349: validation, then projectLinks overwritten
Validate(spec_json) ==
    IF MissingFields(spec_json) # <<>>
    THEN Http500(Detail("MissingFields", MissingFields(spec_json), <<>>))
    ELSE IF ~IsStr(spec_json.o[Key("title")])
    THEN Http500(Detail("AttributeError", <<>>, <<>>))
    ELSE Http200(Obj((Key("projectLinks") :> ProjectLinks(spec_json.o[Key("title")].s))
                     @@ spec_json.o))

\* lines 314-334: the candidate text and the two parse attempts.
\* searched: the branch of line 317 ran, and with it the import of re.
Extract(content) ==
    LET stripped == Strip(content)
        searched == ~StartsWithBrace(stripped)
        match == RegexSearchObject(stripped)
        candidate == RemoveFences(IF searched THEN match.text ELSE stripped)
        first == JsonLoads(candidate)
        repaired == RemoveTrailingCommas(candidate)
        second == JsonLoads(repaired)
    IN  IF searched /\ ~match.found
        THEN [ok |-> FALSE, val |-> None, detail |-> Detail("NoJsonFound", <<>>, <<>>)]
        ELSE IF first.ok
        THEN [ok |-> TRUE, val |-> first.val, detail |-> Detail("", <<>>, <<>>)]
        ELSE IF ~searched
        THEN [ok |-> FALSE, val |-> None,
              detail |-> Detail("UnboundLocalError", <<>>, <<>>)]
        ELSE IF second.ok
        THEN [ok |-> TRUE, val |-> second.val, detail |-> Detail("", <<>>, <<>>)]
        ELSE [ok |-> FALSE, val |-> None,
              detail |-> Detail("JSONDecodeError", <<>>, Take(repaired, DIAG_LEN))]

-----------------------------------------------------------------------------
(* The completion provider: the replies it may give to generate-prd.  The  *)
(* provider is asked (lines 275-303) for one JSON object of a fixed shape. *)

MaxItems == 1
MaxGarbage == 3

KeyOrder ==
    <<"title", "description", "features", "technologies", "architecture",
      "implementationPlan", "projectLinks", "name", "priority",
      "purpose", "type", "components", "interactions", "phase", "duration",
      "tasks", "frontend", "backend", "repository">>

RECURSIVE Join(_, _)
Join(texts, sep) ==
    IF texts = <<>> THEN <<>>
    ELSE IF Len(texts) = 1 THEN texts[1]
    ELSE texts[1] \o sep \o Join(Tail(texts), sep)

\* the text of a JSON value, members in KeyOrder, ", " and ": " as separators
RECURSIVE Serialize(_)
Serialize(v) ==
    IF IsStr(v) THEN <<QUOTE>> \o v.s \o <<QUOTE>>
    ELSE IF IsArr(v)
    THEN <<"[">> \o Join([i \in 1..Len(v.a) |-> Serialize(v.a[i])], <<",", BLANK>>)
         \o <<"]">>
    ELSE IF IsObj(v)
    THEN LET keys == SelectSeq(KeyOrder, LAMBDA k : Key(k) \in DOMAIN v.o)
             member(k) == <<QUOTE, k, QUOTE, ":", BLANK>> \o Serialize(v.o[Key(k)])
         IN  <<"{">> \o Join([i \in 1..Len(keys) |-> member(keys[i])], <<",", BLANK>>)
             \o <<"}">>
    ELSE <<v.n>>

\* the object with the members of a record
FromRecord(r) == Obj([k \in {Key(n) : n \in DOMAIN r} |-> r[k[1]]])

Word(w) == Str(<<w>>)

SampleFeature ==
    FromRecord([name |-> Str(<<"Add", BLANK, "task">>), description |-> Word("adds"),
                priority |-> Word("High")])
SampleTechnology == FromRecord([name |-> Word("React"), purpose |-> Word("UI")])
SampleComponent ==
    FromRecord([name |-> Word("API"), purpose |-> Str(<<"serve", BLANK, "data">>),
                interactions |-> Arr(<<Word("DB"), Word("UI")>>)])
SampleTask == FromRecord([name |-> Word("Setup"), duration |-> Word("1d")])
SamplePhase ==
    FromRecord([phase |-> Word("MVP"), duration |-> Word("1w"),
                tasks |-> Arr(<<SampleTask>>)])

Repeat(x, n) == [i \in 1..n |-> x]

Titles == {<<"Task", BLANK, "Tracker">>, <<"My", BLANK, "Big", BLANK, "App">>}

Descriptions ==
    {<<"tracks", BLANK, "tasks">>,
     <<"run", BLANK, FENCE, "npm", FENCE>>,
     <<"a", ",", "}">>}

\* what the model itself may suggest as projectLinks
SuggestedLinks ==
    FromRecord([frontend |-> Word("https://example.com"),
                backend |-> Word("https://api.example.com"),
                repository |-> Word("github.com/x")])

\* a complete specification object with n items in each list
SpecObject(title, description, n, links) ==
    LET base ==
            [title |-> Str(title), description |-> Str(description),
             features |-> Arr(Repeat(SampleFeature, n)),
             technologies |-> Arr(Repeat(SampleTechnology, n)),
             architecture |->
                 FromRecord([type |-> Word("Client-Server"),
                             components |-> Arr(Repeat(SampleComponent, n))]),
             implementationPlan |-> Arr(Repeat(SamplePhase, n))]
    IN  IF links THEN Obj((Key("projectLinks") :> SuggestedLinks) @@ FromRecord(base).o)
        ELSE FromRecord(base)

SpecObjects ==
    {SpecObject(t, d, n, l) : t \in Titles, d \in Descriptions,
                              n \in 0..MaxItems, l \in BOOLEAN}

\* the object without some of its members
Without(obj, keys) == Obj([k \in DOMAIN obj.o \ keys |-> obj.o[k]])

RequiredKeys == {Key(required_fields[i]) : i \in 1..Len(required_fields)}

PlainObject == SpecObject(<<"Task", BLANK, "Tracker">>, <<"tracks", BLANK, "tasks">>, 0, FALSE)

IncompleteObjects ==
    {Without(SpecObject(<<"Task", BLANK, "Tracker">>, <<"tracks", BLANK, "tasks">>, 0, l), ks) :
        ks \in (SUBSET RequiredKeys) \ {{}}, l \in BOOLEAN}

\* a complete object whose title is not a string
NumberTitleObject == Obj((Key("title") :> [n |-> "1"]) @@ PlainObject.o)

\* positions of the closing braces and brackets that are not inside a string and
\* follow a member or an element: where a trailing comma can be
ClosePositions(t) ==
    {i \in 2..Len(t) :
        /\ t[i] \in {"}", "]"}
        /\ t[i - 1] \notin {"{", "["}
        /\ Cardinality({j \in 1..(i - 1) : t[j] = QUOTE}) % 2 = 0}

\* the text with one comma inserted before position p (p = 0: the text itself)
WithComma(t, p) ==
    IF p = 0 THEN t ELSE SubSeq(t, 1, p - 1) \o <<",">> \o SubSeq(t, p, Len(t))

BraceFreeProse == {<<>>, <<"Here", BLANK, "it", BLANK, "is">>}
BracedProse == {<<"see", BLANK, "{", "x", "}">>, <<"{", "}">>}
Prose == BraceFreeProse \cup BracedProse

Fences == {"none", "bare", "tagged"}

FenceOpen(f) ==
    CASE f = "none" -> <<>>
      [] f = "bare" -> <<FENCE, BLANK>>
      [] f = "tagged" -> <<FENCE, TAG, BLANK>>

FenceClose(f) == IF f = "none" THEN <<>> ELSE <<BLANK, FENCE>>

Origin(kind, obj, pre, fence, post, comma, raw) ==
    [kind |-> kind, obj |-> obj, pre |-> pre, fence |-> fence, post |-> post,
     comma |-> comma, raw |-> raw]

\* the JSON part of a reply
Body(o) == IF o.kind = "spec" THEN WithComma(Serialize(o.obj), o.comma) ELSE o.raw

\* the reply: prose, opening fence, the JSON part, closing fence, prose
Compose(o) ==
    (IF o.pre = <<>> THEN <<>> ELSE o.pre \o <<BLANK>>)
    \o FenceOpen(o.fence) \o Body(o) \o FenceClose(o.fence)
    \o (IF o.post = <<>> THEN <<>> ELSE <<BLANK>> \o o.post)

GarbageLexemes == {"{", "}", ",", "hi", "1"}

RECURSIVE SeqsUpTo(_, _)
SeqsUpTo(S, n) ==
    IF n = 0 THEN {<<>>}
    ELSE LET shorter == SeqsUpTo(S, n - 1)
         IN  shorter \cup {Append(q, x) : q \in shorter, x \in S}

WrappedOrigins ==
    {Origin("spec", obj, pre, f, post, 0, <<>>) :
        obj \in SpecObjects \cup {NumberTitleObject},
        pre \in BraceFreeProse \cup {<<"see", BLANK, "{", "x", "}">>}, f \in Fences,
        post \in Prose}

CommaOrigins ==
    UNION {{Origin("spec", obj, pre, f, post, p, <<>>) :
                p \in ClosePositions(Serialize(obj))} :
           obj \in {SpecObject(t, d, n, FALSE) :
                        t \in {<<"Task", BLANK, "Tracker">>}, d \in Descriptions,
                        n \in 0..MaxItems},
           pre \in BraceFreeProse, f \in Fences, post \in BraceFreeProse}

IncompleteOrigins ==
    {Origin("spec", obj, pre, "none", <<>>, 0, <<>>) :
        obj \in IncompleteObjects, pre \in BraceFreeProse}

GarbageOrigins ==
    {Origin("raw", None, <<>>, f, <<>>, 0, raw) :
        raw \in SeqsUpTo(GarbageLexemes, MaxGarbage), f \in {"none", "tagged"}}

Origins == WrappedOrigins \cup CommaOrigins \cup IncompleteOrigins \cup GarbageOrigins

-----------------------------------------------------------------------------
(* Handlers *)

Turn(role, content) == [role |-> role, content |-> content]

\* the request.  The path is the sequence of its segments, a trailing slash an
\* empty last segment; preflight is "none" or the Origin of a CORS preflight;
\* body is "none", "json" for a JSON object, "no_messages" for a JSON object
\* without the messages field.
Request(method, path, preflight, body) ==
    [method |-> method, path |-> path, preflight |-> preflight, body |-> body]

Post(path) == Request("POST", path, "none", "json")

NoLog == [n |-> 0]
NoReq == <<>>
NoWriter == <<>>
NoSession == [none |-> TRUE]
NoMessage == [none |-> TRUE]

\* lines 34-41: the globals a handler reads, assigned once when the module is
\* imported
Process == [client |-> "MistralClient", MODEL |-> "mistral-large-latest"]

\* a handler that rebinds a global to what it has just served
ProcessRemembering(p, operation) == [p EXCEPT !.MODEL = operation]

\* the globals after a handler has run: no handler has a global statement or
\* calls a method that changes the client, so they are what they were
ProcessAfter(p, operation) == p

PRD_SYSTEM == Turn("system", "prd_authoring_prompt")
PRD_FORMAT == Turn("user", "prd_format_instruction")

ProviderOutcomes == {"ok", "throws", "no_choices"}

\* lines 267-311 with a second call that asks the provider to repair a reply
\* that could not be used
PrdCallsWithRepair(msgs, prov) ==
    LET first == <<PRD_SYSTEM>> \o msgs \o <<PRD_FORMAT>>
    IN  IF prov.outcome = "ok" /\ ~Extract(prov.content).ok
        THEN <<first, Append(first, Turn("assistant", prov.content))>>
        ELSE <<first>>

\* lines 267-311: the calls of client.chat that generate_prd makes, each with
\* the turns it passes: one call, whatever the provider does
PrdCalls(msgs, prov) == << <<PRD_SYSTEM>> \o msgs \o <<PRD_FORMAT>> >>

\* lines 250-361: generate_prd, from the request to the HTTP response.  The
\* HTTPException of lines 352 and 357 is raised inside the outer try, so line 359
\* catches it and raises it again with detail str(e), which still holds the
\* first detail.  DIAG_LEN counts lexemes where the code counts characters.
GeneratePrdResponse(prov) ==
    IF prov.outcome = "throws" THEN Http500(Detail("ProviderError", <<>>, <<>>))
    ELSE IF prov.outcome = "no_choices" THEN Http500(Detail("IndexError", <<>>, <<>>))
    ELSE LET ex == Extract(prov.content)
         IN  IF ex.ok THEN Validate(ex.val) ELSE Http500(ex.detail)

\* a body without the messages field is answered by the framework (line 251,
\* request: ChatRequest) and the handler does not run
GeneratePrd ==
    /\ pc = "pending"
    /\ op = "generate_prd"
    /\ IF http.body = "no_messages"
       THEN /\ response' = Http422(<<"messages">>)
            /\ UNCHANGED <<sent, calls, parsed>>
       ELSE /\ sent' = PrdCalls(messages, provider)[1]
            /\ calls' = calls + Len(PrdCalls(messages, provider))
            /\ parsed' = IF provider.outcome = "ok" THEN Extract(provider.content).val
                         ELSE None
            /\ response' = GeneratePrdResponse(provider)
    /\ pc' = "done"
    /\ proc' = ProcessAfter(proc, op)
    /\ UNCHANGED <<op, messages, provider, origin, spec, fs, http, log, req, writer, session,
                   shown>>

NoOrigin == Origin("none", None, <<>>, "none", <<>>, 0, <<>>)
EmptyFs == [dirs |-> {}, files |-> <<>>, denied |-> {}]

InitPrd ==
    /\ pc = "pending"
    /\ op = "generate_prd"
    /\ messages = <<Turn("user", "idea")>>
    /\ \/ /\ origin \in Origins
          /\ provider = [outcome |-> "ok", content |-> Compose(origin)]
       \/ /\ origin = NoOrigin
          /\ provider \in {[outcome |-> x, content |-> <<>>] : x \in {"throws", "no_choices"}}
    /\ sent = <<>>
    /\ parsed = None
    /\ response = NoResponse
    /\ spec = None
    /\ fs = EmptyFs
    /\ http = Post(<<"generate-prd">>)
    /\ calls = 0
    /\ log = NoLog
    /\ req = NoReq
    /\ writer = NoWriter
    /\ session = NoSession
    /\ shown = NoMessage
    /\ proc = Process

NextPrd == GeneratePrd

SpecPrd == InitPrd /\ [][NextPrd]_vars

-----------------------------------------------------------------------------
(* Properties of generate-prd, checked under SpecPrd *)

PrdDone == pc = "done" /\ op = "generate_prd"

LinksKey == {Key("projectLinks")}

\* a valid ProjectSpecification: the six required members, the title a string
IsCompleteSpec(obj) ==
    /\ IsObj(obj)
    /\ RequiredKeys \subseteq DOMAIN obj.o
    /\ IsStr(obj.o[Key("title")])

SpecReply == origin.kind = "spec" /\ provider.outcome = "ok"

\* C2: a complete specification, serialized, wrapped in a fenced block (tagged or
\* not) with prose before and after, is extracted to an object equal to the
\* original apart from projectLinks.
C2_FencedRoundTrip ==
    (/\ PrdDone /\ SpecReply
     /\ IsCompleteSpec(origin.obj)
     /\ origin.fence # "none" /\ origin.pre # <<>> /\ origin.post # <<>>
     /\ origin.comma = 0)
    => /\ response.status = 200
       /\ Without(response.body, LinksKey) = Without(origin.obj, LinksKey)

\* C3: with one trailing comma inserted before a closing brace or bracket, the
\* reply is extracted to the same object as the comma-free serialization, in
\* every form of reply (bare, fenced, prose-wrapped).
C3_TrailingCommaTolerated ==
    (/\ PrdDone /\ SpecReply
     /\ IsCompleteSpec(origin.obj)
     /\ origin.comma # 0)
    => /\ response.status = 200
       /\ parsed = JsonLoads(Serialize(origin.obj)).val

\* C4: for a JSON object J and brace-free prose P and Q (either may be empty),
\* the reply P + J + Q is extracted to J.
C4_ProseTolerated ==
    (/\ PrdDone /\ SpecReply
     /\ origin.fence = "none" /\ origin.comma = 0
     /\ origin.pre \in BraceFreeProse /\ origin.post \in BraceFreeProse)
    => parsed = origin.obj

\* C5: when braces follow the object (prose with braces, or a second object), the
\* extractor takes the first balanced span and returns the object parsed from it.
C5_FirstBalancedSpan ==
    (/\ PrdDone /\ SpecReply
     /\ origin.fence = "none" /\ origin.comma = 0
     /\ origin.post \in BracedProse)
    => parsed = origin.obj

\* C6: generate-prd succeeds only when the parsed object has all six required
\* fields; when some are absent it fails without a specification (so without
\* projectLinks) and the error names exactly the missing fields.
C6_RequiredFields ==
    PrdDone =>
        /\ response.status = 200 => (parsed # None /\ RequiredKeys \subseteq DOMAIN parsed.o)
        /\ (parsed # None /\ ~(RequiredKeys \subseteq DOMAIN parsed.o)) =>
              /\ response.status = 500
              /\ response.body = None
              /\ response.detail.error = "MissingFields"
              /\ {Key(response.detail.fields[i]) : i \in 1..Len(response.detail.fields)}
                     = RequiredKeys \ DOMAIN parsed.o
              /\ Len(response.detail.fields) = Cardinality(RequiredKeys \ DOMAIN parsed.o)

\* C6 witness: a reply missing only technologies is refused naming only technologies
C6_Witness ==
    /\ PrdDone
    /\ parsed # None
    /\ RequiredKeys \ DOMAIN parsed.o = {Key("technologies")}
    /\ response.status = 500
    /\ response.detail.fields = <<"technologies">>

\* the slug the specification gives for the titles of the model
ExpectedSlug(title) ==
    CASE title = <<"Task", BLANK, "Tracker">> -> <<"task", "_", "tracker">>
      [] title = <<"My", BLANK, "Big", BLANK, "App">> -> <<"my", "_", "big", "_", "app">>

\* C7: every successful response carries projectLinks with the two local URLs and
\* repository generated_projects/<slug(title)>, whatever the reply suggested.
C7_LinksOverwritten ==
    (PrdDone /\ response.status = 200) =>
        LET links == response.body.o[Key("projectLinks")]
        IN  /\ DOMAIN links.o = {Key("frontend"), Key("backend"), Key("repository")}
            /\ links.o[Key("frontend")] = Str(<<"http://localhost:3000">>)
            /\ links.o[Key("backend")] = Str(<<"http://localhost:3001">>)
            /\ links.o[Key("repository")]
                   = Str(<<"generated_projects", "/">>
                         \o ExpectedSlug(response.body.o[Key("title")].s))

\* C7 witness: the reply suggested its own links, the title has two blanks and
\* capitals, and the response carries the recomputed links
C7_Witness ==
    /\ PrdDone /\ SpecReply
    /\ response.status = 200
    /\ Key("projectLinks") \in DOMAIN origin.obj.o
    /\ origin.obj.o[Key("projectLinks")] = SuggestedLinks
    /\ response.body.o[Key("title")] = Str(<<"My", BLANK, "Big", BLANK, "App">>)
    /\ response.body.o[Key("projectLinks")].o[Key("repository")]
           = Str(<<"generated_projects", "/", "my", "_", "big", "_", "app">>)

\* C10: when every extraction attempt fails, the request fails with an error that
\* carries the first 200 characters of the raw provider text, and no
\* specification is returned.
C10_UnparsableCarriesRawText ==
    (PrdDone /\ provider.outcome = "ok" /\ parsed = None) =>
        /\ response.status = 500
        /\ response.body = None
        /\ response.detail.text = Take(provider.content, DIAG_LEN)

-----------------------------------------------------------------------------
(* POST /chat (src/src/backend/main.py) and POST /api/chat (src/api/index.py) *)

MaxTurns == 4

Roles == {"user", "assistant", "system"}

DISCOVERY == Turn("system", "discovery_prompt")
COLLABORATIVE == Turn("system", "collaborative_prompt")

DISCOVERY_MAX == 2

\* sum(1 for msg in request.messages if msg.role == "user")
RECURSIVE UserMsgCount(_)
UserMsgCount(msgs) ==
    IF msgs = <<>> THEN 0
    ELSE (IF Head(msgs).role = "user" THEN 1 ELSE 0) + UserMsgCount(Tail(msgs))

\* the comparison of line 120 made strict
SystemMessageStrict(msgs) ==
    IF UserMsgCount(msgs) < DISCOVERY_MAX THEN DISCOVERY ELSE COLLABORATIVE

\* lines 120-198: the system message for the request
SystemMessage(msgs) ==
    IF UserMsgCount(msgs) <= DISCOVERY_MAX THEN DISCOVERY ELSE COLLABORATIVE

\* lines 204-207 with the request turns of role system left out
ChatMessagesWithoutSystemTurns(msgs) ==
    <<SystemMessage(msgs)>> \o SelectSeq(msgs, LAMBDA m : m.role # "system")

\* lines 204-207: the system message, then the request turns
ChatMessages(msgs) ==
    <<SystemMessage(msgs)>> \o [i \in 1..Len(msgs) |-> Turn(msgs[i].role, msgs[i].content)]

\* lines 211-215 with the call made again after the provider raised
ChatCallsWithRetry(msgs, prov) ==
    IF prov.outcome = "throws" THEN <<ChatMessages(msgs), ChatMessages(msgs)>>
    ELSE <<ChatMessages(msgs)>>

\* lines 211-215: the calls of client.chat that chat makes: one
ChatCalls(msgs, prov) == <<ChatMessages(msgs)>>

ChatBody(content) == [response |-> content]

\* a handler that answers a failed call with an empty reply
ChatResponseMainSwallowing(prov) ==
    IF prov.outcome = "ok" THEN Http200(ChatBody(prov.content))
    ELSE Http200(ChatBody(<<>>))

\* main.py lines 209-237: the HTTPException of line 226 is raised inside the outer
\* try, so line 231 catches it and wraps its text once more
ChatResponseMain(prov) ==
    IF prov.outcome = "throws"
    THEN Http500(Detail("Error processing chat request", <<"ProviderError">>, <<>>))
    ELSE IF prov.outcome = "no_choices"
    THEN Http500(Detail("Error processing chat request",
                        <<"Failed to extract content">>, <<>>))
    ELSE Http200(ChatBody(prov.content))

\* a handler that returns its error texts with status 200
ChatResponseApiAlways200(prov) ==
    IF prov.outcome = "ok" THEN Http200(ChatBody(prov.content))
    ELSE Http200(ChatBody(<<"Error", "processing", "chat", "request">>))

\* api/index.py lines 158-186: the responses are returned, not raised
ChatResponseApi(prov) ==
    IF prov.outcome = "throws"
    THEN Http500(Detail("Error processing chat request", <<"ProviderError">>, <<>>))
    ELSE IF prov.outcome = "no_choices"
    THEN Http500(Detail("Failed to extract content", <<>>, <<>>))
    ELSE Http200(ChatBody(prov.content))

\* main.py lines 109-237; a body without messages is answered by the framework
\* (line 110, request: ChatRequest)
ChatMain ==
    /\ pc = "pending"
    /\ op = "chat"
    /\ IF http.body = "no_messages"
       THEN /\ response' = Http422(<<"messages">>)
            /\ UNCHANGED <<sent, calls>>
       ELSE /\ sent' = ChatCalls(messages, provider)[1]
            /\ calls' = calls + Len(ChatCalls(messages, provider))
            /\ response' = ChatResponseMain(provider)
    /\ pc' = "done"
    /\ proc' = ProcessAfter(proc, op)
    /\ UNCHANGED <<op, messages, provider, origin, parsed, spec, fs, http, log, req, writer,
                   session, shown>>

\* api/index.py lines 54-186; line 59 reads a body without messages as no turns
ChatApi ==
    /\ pc = "pending"
    /\ op = "api_chat"
    /\ sent' = ChatCalls(messages, provider)[1]
    /\ calls' = calls + Len(ChatCalls(messages, provider))
    /\ response' = ChatResponseApi(provider)
    /\ pc' = "done"
    /\ proc' = ProcessAfter(proc, op)
    /\ UNCHANGED <<op, messages, provider, origin, parsed, spec, fs, http, log, req, writer,
                   session, shown>>

\* the request bodies: every sequence of at most MaxTurns turns, the content of a
\* turn being its position
Conversations ==
    UNION {[1..n -> Roles] : n \in 0..MaxTurns}

AsTurns(roles) == [i \in 1..Len(roles) |-> Turn(roles[i], i)]

\* the chat requests with bodies of the given kinds
InitChatWith(kinds) ==
    /\ pc = "pending"
    /\ op \in {"chat", "api_chat"}
    /\ http \in {Request("POST", IF op = "chat" THEN <<"chat">> ELSE <<"api", "chat">>,
                          "none", k) : k \in kinds}
    /\ calls = 0
    /\ log = NoLog
    /\ req = NoReq
    /\ writer = NoWriter
    /\ session = NoSession
    /\ shown = NoMessage
    /\ proc = Process
    /\ messages \in IF http.body = "json" THEN {AsTurns(c) : c \in Conversations}
                    ELSE {<<>>}
    /\ provider \in {[outcome |-> x, content |-> <<"reply">>] : x \in ProviderOutcomes}
    /\ origin = NoOrigin
    /\ sent = <<>>
    /\ parsed = None
    /\ response = NoResponse
    /\ spec = None
    /\ fs = EmptyFs

InitChat == InitChatWith({"json"})

NextChat == ChatMain \/ ChatApi

SpecChat == InitChat /\ [][NextChat]_vars

\* C1: the Discovery prompt is selected when at most 2 turns have role user, the
\* Collaborative prompt when more than 2 have; nothing else of the request decides.
C1_PhaseSelector ==
    (pc = "done" /\ op \in {"chat", "api_chat"}) =>
        LET users == {i \in 1..Len(messages) : messages[i].role = "user"}
        IN  /\ Cardinality(users) <= 2 => sent[1].content = "discovery_prompt"
            /\ Cardinality(users) > 2 => sent[1].content = "collaborative_prompt"
            /\ sent[1].role = "system"

\* C1 witness: both sides of the boundary are handled, with other turns mixed in
C1_Witness ==
    /\ pc = "done" /\ op = "chat"
    /\ Len(messages) = 4
    /\ Cardinality({i \in 1..Len(messages) : messages[i].role = "user"}) = 3
    /\ messages[1].role = "assistant"
    /\ sent[1].content = "collaborative_prompt"

-----------------------------------------------------------------------------
(* POST /create-project.  The templates nest f-strings with a backslash in  *)
(* the expression part, which Python accepts from 3.12 on: the model is of *)
(* the handler as such an interpreter runs it.                             *)

GUIDE == "IMPLEMENTATION_GUIDE.md"
PRD == "PRD.md"
README == "README.md"
ENV == ".env"

\* lines 484-491
ENV_FILE == <<"PORT=3000", "API_PORT=3001", "NODE_ENV=development">>

\* the names between the slashes of a path text, as pathlib keeps them: an empty
\* name is dropped, the name ".." stays
RECURSIVE PathParts(_)
PathParts(text) ==
    IF text = <<>> THEN <<>>
    ELSE LET slashes == {i \in 1..Len(text) : text[i] = "/"}
             k == IF slashes = {} THEN Len(text) + 1
                  ELSE CHOOSE i \in slashes : \A j \in slashes : i <= j
             name == SubSeq(text, 1, k - 1)
         IN  (IF name = <<>> THEN <<>> ELSE <<name>>)
             \o PathParts(SubSeq(text, k + 1, Len(text)))

\* lines 367-368: Path("generated_projects") / project_name.  Joining a text
\* that begins with a slash gives that absolute path
ProjectDir(title) ==
    (IF Slug(title) # <<>> /\ Slug(title)[1] = "/" THEN <<"/">> ELSE <<PROJECTS_DIR>>)
    \o PathParts(Slug(title))

\* lines 451-456, in the order they are created
SubDirs == << <<"src">>, <<"src", "frontend">>, <<"src", "backend">>, <<"src", "shared">>,
              <<"docs">>, <<"tests">> >>

\* item[key] for every key: a KeyError when the item lacks one
HasKeys(item, keys) == IsObj(item) /\ {Key(k) : k \in keys} \subseteq DOMAIN item.o

Field(item, k) == item.o[Key(k)]

AllHave(items, keys) == \A i \in 1..Len(items) : HasKeys(items[i], keys)

\* line 387: one entry per feature
GuideFeatureLines(features) ==
    [i \in 1..Len(features) |->
        [name |-> Field(features[i], "name"), priority |-> Field(features[i], "priority"),
         description |-> Field(features[i], "description")]]

\* line 390: the loop variable is f, the line reads t, and no t is bound in
\* create_project or in the module: a NameError once the loop body runs
TechnologyLoopVariable == "f"
TechnologyLineReads == "t"
BoundNames == {"spec", "project_name", "project_dir", TechnologyLoopVariable}

TechnologyLinesRaise(technologies) ==
    technologies # <<>> /\ TechnologyLineReads \notin BoundNames

GuideTechnologyLines(technologies) ==
    [i \in 1..Len(technologies) |->
        [name |-> Field(technologies[i], "name"),
         purpose |-> Field(technologies[i], "purpose")]]

\* line 396: one block per component, the interactions joined by ", "
GuideComponentBlocks(components) ==
    [i \in 1..Len(components) |->
        [name |-> Field(components[i], "name"), purpose |-> Field(components[i], "purpose"),
         interactions |->
             LET xs == Field(components[i], "interactions").a
             IN  Join([j \in 1..Len(xs) |-> xs[j].s], <<",", BLANK>>)]]

\* line 399: one block per phase, numbered from 1, one line per task
GuidePhaseBlocks(plan) ==
    [i \in 1..Len(plan) |->
        [number |-> i, phase |-> Field(plan[i], "phase"),
         duration |-> Field(plan[i], "duration"),
         tasks |->
             LET ts == Field(plan[i], "tasks").a
             IN  [j \in 1..Len(ts) |->
                     [name |-> Field(ts[j], "name"), duration |-> Field(ts[j], "duration")]]]]

\* the exception the template of lines 372-419 raises, "" when it raises none
GuideError(sp) ==
    LET features == Field(sp, "features").a
        technologies == Field(sp, "technologies").a
        architecture == Field(sp, "architecture")
        plan == Field(sp, "implementationPlan").a
    IN  IF ~AllHave(features, {"name", "priority", "description"}) THEN "KeyError"
        ELSE IF TechnologyLinesRaise(technologies) THEN "NameError"
        ELSE IF ~HasKeys(architecture, {"type"}) THEN "KeyError"
        ELSE IF ~HasKeys(architecture, {"components"}) THEN "KeyError"
        ELSE IF ~IsArr(Field(architecture, "components")) THEN "TypeError"
        ELSE IF ~AllHave(Field(architecture, "components").a,
                         {"name", "purpose", "interactions"}) THEN "KeyError"
        ELSE IF \E i \in 1..Len(plan) :
                    \/ ~HasKeys(plan[i], {"phase", "duration", "tasks"})
                    \/ ~IsArr(Field(plan[i], "tasks"))
                    \/ ~AllHave(Field(plan[i], "tasks").a, {"name", "duration"})
        THEN "KeyError"
        ELSE ""

\* lines 372-419: the implementation guide
GuideFile(sp) ==
    [title |-> Field(sp, "title").s,
     overview |-> Field(sp, "description").s,
     features |-> GuideFeatureLines(Field(sp, "features").a),
     technologies |-> GuideTechnologyLines(Field(sp, "technologies").a),
     architecture |-> Field(Field(sp, "architecture"), "type"),
     components |-> GuideComponentBlocks(Field(Field(sp, "architecture"), "components").a),
     phases |-> GuidePhaseBlocks(Field(sp, "implementationPlan").a)]

\* lines 426-443
PrdFile(sp) ==
    [title |-> Field(sp, "title").s, description |-> Field(sp, "description").s,
     frontend |-> FRONTEND_URL, backend |-> BACKEND_URL]

\* line 475: one line per feature, name and description
ReadmeFeatureLines(features) ==
    [i \in 1..Len(features) |->
        [name |-> Field(features[i], "name"),
         description |-> Field(features[i], "description")]]

\* lines 459-479
ReadmeFile(sp) ==
    [title |-> Field(sp, "title").s, description |-> Field(sp, "description").s,
     frontend |-> FRONTEND_URL, backend |-> BACKEND_URL,
     project_dir |-> ProjectDir(Field(sp, "title").s),
     features |-> ReadmeFeatureLines(Field(sp, "features").a)]

\* Path.mkdir(parents=True, exist_ok=True) of line 369: the directory and every
\* directory above it, under the names the path gives them
MkProjectDir(f, dir) == [f EXCEPT !.dirs = @ \cup {SubSeq(dir, 1, n) : n \in 1..Len(dir)}]

\* open(path, "w") and write: the file is created or replaced
WriteFile(f, path, content) == [f EXCEPT !.files = (path :> content) @@ @]

\* a mkdir that empties a directory it finds
MkDirCleared(f, path) ==
    LET under(q) == Len(q) > Len(path) /\ SubSeq(q, 1, Len(path)) = path
    IN  [f EXCEPT !.dirs = {d \in @ : ~under(d)} \cup {path},
                  !.files = [q \in {x \in DOMAIN @ : ~under(x)} |-> @[q]]]

\* Path.mkdir(exist_ok=True) of lines 451-456: an existing directory is left as it is
MkDir(f, path) == [f EXCEPT !.dirs = @ \cup {path}]

\* the system calls and the template evaluation of the handler, in program order
Step(kind, path, content) == [kind |-> kind, path |-> path, content |-> content]

\* a handler that writes PRD.md before it evaluates the guide's template
StepsPrdFirst(sp) ==
    LET dir == ProjectDir(Field(sp, "title").s)
        guide == IF GuideError(sp) = "" THEN GuideFile(sp) ELSE <<>>
        readme == IF GuideError(sp) = "" THEN ReadmeFile(sp) ELSE <<>>
    IN  <<Step("mkdirs", dir, <<>>),
          Step("write", Append(dir, PRD), PrdFile(sp)),
          Step("guide", dir, <<>>),
          Step("write", Append(dir, GUIDE), guide)>>
        \o [i \in 1..Len(SubDirs) |-> Step("mkdir", dir \o SubDirs[i], <<>>)]
        \o <<Step("write", Append(dir, README), readme),
             Step("write", Append(dir, ENV), ENV_FILE)>>

\* lines 369-493 for a body that passed validation
Steps(sp) ==
    LET dir == ProjectDir(Field(sp, "title").s)
        guide == IF GuideError(sp) = "" THEN GuideFile(sp) ELSE <<>>
        readme == IF GuideError(sp) = "" THEN ReadmeFile(sp) ELSE <<>>
    IN  <<Step("mkdirs", dir, <<>>),
          Step("guide", dir, <<>>),
          Step("write", Append(dir, GUIDE), guide),
          Step("write", Append(dir, PRD), PrdFile(sp))>>
        \o [i \in 1..Len(SubDirs) |-> Step("mkdir", dir \o SubDirs[i], <<>>)]
        \o <<Step("write", Append(dir, README), readme),
             Step("write", Append(dir, ENV), ENV_FILE)>>

\* the character of a JSON string that no encoding of a text file takes: a lone
\* surrogate (an escape such as u+d800 on its own)
SURROGATE == "surrogate"

\* f.write of a text with a feature whose name, priority or description holds a
\* lone surrogate raises UnicodeEncodeError; the members of the dicts in
\* features reach the templates as the body gave them
Unencodable(sp) ==
    \E i \in 1..Len(Field(sp, "features").a) :
        \E k \in {"name", "priority", "description"} :
            /\ IsStr(Field(Field(sp, "features").a[i], k))
            /\ \E j \in 1..Len(Field(Field(sp, "features").a[i], k).s) :
                   Field(Field(sp, "features").a[i], k).s[j] = SURROGATE

\* the texts with the features in them
FeatureTexts == {GUIDE, README}

\* a mkdir without exist_ok: FileExistsError on a directory that is there
StepErrorIfExists(f, sp, st) ==
    IF st.kind = "guide" THEN GuideError(sp)
    ELSE IF st.kind \in {"mkdir", "mkdirs"} /\ st.path \in f.dirs THEN "FileExistsError"
    ELSE IF st.path \in f.denied THEN "PermissionError"
    ELSE ""

\* the exception a step raises, "" when it raises none: the template of lines
\* 372-419 as GuideError says; open and mkdir on a path the process may not
\* write raise PermissionError, mkdir on an existing directory does nothing
StepError(f, sp, st) ==
    IF st.kind = "guide" THEN GuideError(sp)
    ELSE IF st.kind \in {"mkdir", "mkdirs"} /\ st.path \in f.dirs THEN ""
    ELSE IF st.path \in f.denied THEN "PermissionError"
    ELSE IF st.kind = "write" /\ st.path[Len(st.path)] \in FeatureTexts /\ Unencodable(sp)
    THEN "UnicodeEncodeError"
    ELSE ""

\* a file open(path, "w") has created or emptied
Truncated == [size |-> 0]

\* the filesystem after a step that raised: a write that fails on its text has
\* opened the file before
Failed(f, st, error) ==
    IF st.kind = "write" /\ error = "UnicodeEncodeError" THEN WriteFile(f, st.path, Truncated)
    ELSE f

\* the filesystem after a step that raised nothing
Apply(f, st) ==
    CASE st.kind = "mkdirs" -> MkProjectDir(f, st.path)
      [] st.kind = "mkdir" -> MkDir(f, st.path)
      [] st.kind = "write" -> WriteFile(f, st.path, st.content)
      [] OTHER -> f

\* the steps in order up to the first exception
RECURSIVE Run(_, _, _)
Run(f, sp, steps) ==
    IF steps = <<>> THEN [fs |-> f, error |-> ""]
    ELSE IF StepError(f, sp, Head(steps)) # ""
    THEN [fs |-> Failed(f, Head(steps), StepError(f, sp, Head(steps))),
          error |-> StepError(f, sp, Head(steps))]
    ELSE Run(Apply(f, Head(steps)), sp, Tail(steps))

\* the working directory of the server process
WORKDIR == <<"/", "srv", "app">>

\* a result that resolves the directory against the working directory
ScaffoldResultResolved(dir) ==
    [project_dir |-> WORKDIR \o dir, frontend_url |-> FRONTEND_URL,
     backend_url |-> BACKEND_URL]

\* lines 495-499: str(project_dir) is the path as line 368 built it, relative to
\* the working directory
ScaffoldResult(dir) ==
    [project_dir |-> dir, frontend_url |-> FRONTEND_URL, backend_url |-> BACKEND_URL]

\* lines 51-57 and 364: what the framework accepts as a ProjectSpec body
ValidBody(body) ==
    /\ IsObj(body)
    /\ RequiredKeys \subseteq DOMAIN body.o
    /\ IsStr(Field(body, "title")) /\ IsStr(Field(body, "description"))
    /\ \A k \in {"features", "technologies", "implementationPlan"} :
           /\ IsArr(Field(body, k))
           /\ \A i \in 1..Len(Field(body, k).a) : IsObj(Field(body, k).a[i])
    /\ IsObj(Field(body, "architecture"))

\* the fields of ProjectSpec the body lacks or gives with another type
InvalidFields(body) ==
    SelectSeq(required_fields,
              LAMBDA k : \/ Key(k) \notin DOMAIN body.o
                         \/ ~ValidBody(Obj((Key(k) :> Field(body, k)) @@ PlainObject.o)))

\* lines 365-503: the filesystem and the response after the handler
CreateProjectOutcome(f, sp) ==
    LET ran == Run(f, sp, Steps(sp))
    IN  IF ran.error # ""
        THEN [fs |-> ran.fs, response |-> Http500(Detail(ran.error, <<>>, <<>>))]
        ELSE [fs |-> ran.fs,
              response |-> Http200(ScaffoldResult(ProjectDir(Field(sp, "title").s)))]

\* line 364 and lines 365-503: validation by the framework, then the handler
CreateProjectResult(f, body) ==
    IF ValidBody(body) THEN CreateProjectOutcome(f, body)
    ELSE [fs |-> f, response |-> Http422(InvalidFields(body))]

\* the request bodies: complete specifications of the shape of lines 51-57
ScaffoldSpec(title, description, nf, nt, n) ==
    FromRecord(
        [title |-> Str(title), description |-> Str(description),
         features |-> Arr(Repeat(SampleFeature, nf)),
         technologies |-> Arr(Repeat(SampleTechnology, nt)),
         architecture |->
             FromRecord([type |-> Word("Client-Server"),
                         components |-> Arr(Repeat(SampleComponent, n))]),
         implementationPlan |-> Arr(Repeat(SamplePhase, n))])

\* bodies with no technology and with MaxItems technologies; as many components
\* and phases as features
ScaffoldSpecs ==
    {ScaffoldSpec(t, d, nf, nt, nf) :
        t \in Titles, d \in {<<"tracks", BLANK, "tasks">>},
        nf \in 0..MaxItems, nt \in {0, MaxItems}}

\* bodies that are not a ProjectSpec: a required field absent, or features a string
ScaffoldBodies ==
    ScaffoldSpecs
    \cup {Without(PlainObject, {k}) : k \in RequiredKeys}
    \cup {Obj((Key("features") :> Word("none")) @@ PlainObject.o)}

\* a project directory that exists before the first request, with files of its own
PreExistingFs ==
    LET dir == ProjectDir(<<"Task", BLANK, "Tracker">>)
    IN  [dirs |-> {<<PROJECTS_DIR>>, dir, Append(dir, "src")},
         files |-> (Append(dir, "notes.txt") :> <<"keep">>)
                   @@ (Append(dir, README) :> [title |-> <<"old">>])
                   @@ (dir \o <<"src", "main.py">> :> <<"code">>)
                   @@ (<<"server.log">> :> <<"log">>),
         denied |-> {}]

\* the paths the server process may not write, fixed for the run
DeniedSets ==
    LET dir == ProjectDir(<<"Task", BLANK, "Tracker">>)
    IN  {{}, {Append(dir, README)}, {Append(dir, "docs")}}

Filesystems ==
    {[f EXCEPT !.denied = d] : f \in {EmptyFs, PreExistingFs}, d \in DeniedSets}

\* the record of one successful request, any one: its body, the README.md and
\* the .env it left, and whether the same body has succeeded again since
Logged(lg, sp, out) ==
    IF out.response.status # 200 THEN {lg}
    ELSE IF lg.n = 0
    THEN {lg,
          [n |-> 1, spec |-> sp,
           readme |-> out.fs.files[Append(ProjectDir(Field(sp, "title").s), README)],
           env |-> out.fs.files[Append(ProjectDir(Field(sp, "title").s), ENV)]]}
    ELSE IF lg.spec = sp THEN {[lg EXCEPT !.n = 2]}
    ELSE {lg}

CreateProject(sp) ==
    /\ op = "create_project"
    /\ spec' = sp
    /\ fs' = CreateProjectResult(fs, sp).fs
    /\ response' = CreateProjectResult(fs, sp).response
    /\ log' \in Logged(log, sp, CreateProjectResult(fs, sp))
    /\ pc' = "done"
    /\ proc' = ProcessAfter(proc, op)
    /\ UNCHANGED <<op, messages, provider, origin, sent, parsed, http, calls, req, writer,
                   session, shown>>

InitScaffold ==
    /\ pc = "pending"
    /\ op = "create_project"
    /\ messages = <<>>
    /\ provider = [outcome |-> "ok", content |-> <<>>]
    /\ origin = NoOrigin
    /\ sent = <<>>
    /\ parsed = None
    /\ response = NoResponse
    /\ spec = None
    /\ fs \in Filesystems
    /\ http = Post(<<"create-project">>)
    /\ calls = 0
    /\ log = NoLog
    /\ req = NoReq
    /\ writer = NoWriter
    /\ session = NoSession
    /\ shown = NoMessage
    /\ proc = Process

NextScaffold == \E sp \in ScaffoldSpecs : CreateProject(sp)

SpecScaffold == InitScaffold /\ [][NextScaffold]_vars

-----------------------------------------------------------------------------
(* Properties of create-project, checked under SpecScaffold *)

ScaffoldDone == pc = "done" /\ op = "create_project"

Range(q) == {q[i] : i \in 1..Len(q)}

\* C8: for a specification with at least one feature and one technology the
\* request succeeds and the project directory holds the guide, PRD.md, a README
\* with one line per feature in input order, .env with PORT=3000, and the five
\* subdirectories.
C8_ScaffoldWritten ==
    (/\ ScaffoldDone
     /\ Len(Field(spec, "features").a) >= 1
     /\ Len(Field(spec, "technologies").a) >= 1)
    => LET dir == <<"generated_projects", ExpectedSlug(Field(spec, "title").s)>>
           features == Field(spec, "features").a
       IN  /\ response.status = 200
           /\ {Append(dir, n) : n \in {"IMPLEMENTATION_GUIDE.md", "PRD.md", "README.md", ".env"}}
                  \subseteq DOMAIN fs.files
           /\ fs.files[Append(dir, "README.md")].features
                  = [i \in 1..Len(features) |->
                        [name |-> features[i].o[Key("name")],
                         description |-> features[i].o[Key("description")]]]
           /\ "PORT=3000" \in Range(fs.files[Append(dir, ".env")])
           /\ {dir \o <<"src", "frontend">>, dir \o <<"src", "backend">>,
               dir \o <<"src", "shared">>, dir \o <<"docs">>, dir \o <<"tests">>}
                  \subseteq fs.dirs

\* C9: the guide written for the request has, in input order, one line per
\* feature, one line per technology with that technology's own name and purpose,
\* one block per component and one block per phase numbered from 1.
C9_GuideContent ==
    ScaffoldDone
    => LET dir == <<"generated_projects", ExpectedSlug(Field(spec, "title").s)>>
           features == Field(spec, "features").a
           technologies == Field(spec, "technologies").a
           components == Field(Field(spec, "architecture"), "components").a
           plan == Field(spec, "implementationPlan").a
       IN  /\ Append(dir, "IMPLEMENTATION_GUIDE.md") \in DOMAIN fs.files
           /\ LET guide == fs.files[Append(dir, "IMPLEMENTATION_GUIDE.md")]
              IN  /\ Len(guide.features) = Len(features)
                  /\ \A i \in 1..Len(features) :
                         guide.features[i].name = features[i].o[Key("name")]
                  /\ Len(guide.technologies) = Len(technologies)
                  /\ \A i \in 1..Len(technologies) :
                         /\ guide.technologies[i].name = technologies[i].o[Key("name")]
                         /\ guide.technologies[i].purpose = technologies[i].o[Key("purpose")]
                  /\ Len(guide.components) = Len(components)
                  /\ Len(guide.phases) = Len(plan)
                  /\ \A i \in 1..Len(plan) : guide.phases[i].number = i

-----------------------------------------------------------------------------
(* The HTTP surface of main.py: the CORS middleware, the routes, the two    *)
(* exception handlers, the usage endpoints and the health probe (also the  *)
(* one of api/index.py).                                                    *)

Methods == {"GET", "POST", "PUT", "DELETE", "PATCH", "HEAD", "OPTIONS"}

Route(method, path, endpoint) == [method |-> method, path |-> path, endpoint |-> endpoint]

\* the route decorators of main.py
Routes ==
    {Route("GET", <<"health">>, "health"),
     Route("GET", <<"chat">>, "get_chat_info"),
     Route("POST", <<"chat">>, "chat"),
     Route("GET", <<"generate-prd">>, "get_prd_info"),
     Route("POST", <<"generate-prd">>, "generate_prd"),
     Route("POST", <<"create-project">>, "create_project")}

\* lines 26-32: the origins the CORS middleware accepts, compared as they are written
allow_origins ==
    {"http://localhost:8501", "http://localhost:8502", "https://*.vercel.app",
     "https://*.now.sh"}

\* the path with its trailing slash added or removed
ToggleSlash(path) ==
    IF path # <<>> /\ path[Len(path)] = "" THEN SubSeq(path, 1, Len(path) - 1)
    ELSE Append(path, "")

Routed(path) == \E r \in Routes : r.path = path

\* routing that does not tell a wrong method from a missing route
HandlerWithout405(r) ==
    IF r.method = "OPTIONS" /\ r.preflight # "none" THEN "preflight"
    ELSE IF \E x \in Routes : x.path = r.path /\ x.method = r.method
    THEN (CHOOSE x \in Routes : x.path = r.path /\ x.method = r.method).endpoint
    ELSE IF r.path # <<>> /\ Routed(ToggleSlash(r.path)) /\ ~Routed(r.path)
    THEN "redirect_slashes"
    ELSE "not_found"

\* who answers a request to the application of main.py: the CORS middleware a
\* preflight; the route with the path and the method; the handler for 405 when
\* only the path has a route; a redirect when the path has a route once its
\* trailing slash is toggled (the root excepted); else the handler for 404
Handler(r) ==
    IF r.method = "OPTIONS" /\ r.preflight # "none" THEN "preflight"
    ELSE IF \E x \in Routes : x.path = r.path /\ x.method = r.method
    THEN (CHOOSE x \in Routes : x.path = r.path /\ x.method = r.method).endpoint
    ELSE IF Routed(r.path) THEN "method_not_allowed"
    ELSE IF r.path # <<>> /\ Routed(ToggleSlash(r.path)) THEN "redirect_slashes"
    ELSE "not_found"

Http(status, body, detail) == [status |-> status, body |-> body, detail |-> detail]

\* lines 83-88
NotFoundResponse(r) == Http(404, None, Detail("Endpoint not found", <<>>, r.path))

\* lines 90-95
MethodNotAllowedResponse(r) ==
    Http(405, None, Detail("Method not allowed for", <<r.method>>, r.path))

RedirectResponse(r) == Http(307, [location |-> ToggleSlash(r.path)], Detail("", <<>>, <<>>))

\* the answer of the CORS middleware to a preflight
PreflightResponse(r) ==
    IF r.preflight \in allow_origins THEN Http200("OK")
    ELSE Http(400, "Disallowed CORS origin", Detail("", <<>>, <<>>))

\* lines 98-107 and 239-248
ChatInfo == [message |-> "chat_usage", example |-> <<Turn("user", "Your message here")>>]
PrdInfo == [message |-> "prd_usage", example |-> <<Turn("user", "I want to build")>>]

SERVICE == "AI Creative Collaborator"

\* a probe that lets the exception of the provider through
HealthResponseRaising(prov) ==
    IF prov.outcome = "throws" THEN Http500(Detail("ProviderError", <<>>, <<>>))
    ELSE Http200([status |-> "healthy", service |-> SERVICE, mistral_api |-> "connected"])

\* main.py lines 62-80, api/index.py lines 33-51: the reply of the provider is
\* not looked at
HealthResponse(prov) ==
    IF prov.outcome = "throws"
    THEN Http200([status |-> "unhealthy", service |-> SERVICE, error |-> "ProviderError"])
    ELSE Http200([status |-> "healthy", service |-> SERVICE, mistral_api |-> "connected"])

\* an endpoint or handler that only answers
Answer(name, resp) ==
    /\ pc = "pending"
    /\ op = name
    /\ response' = resp
    /\ pc' = "done"
    /\ UNCHANGED <<op, messages, provider, origin, sent, parsed, spec, fs, http, calls, log,
                   req, writer, session,
                   shown, proc>>

NotFound == op = "not_found" /\ Answer(op, NotFoundResponse(http))
MethodNotAllowed == op = "method_not_allowed" /\ Answer(op, MethodNotAllowedResponse(http))
RedirectSlashes == op = "redirect_slashes" /\ Answer(op, RedirectResponse(http))
Preflight == op = "preflight" /\ Answer(op, PreflightResponse(http))
GetChatInfo == op = "get_chat_info" /\ Answer(op, Http200(ChatInfo))
GetPrdInfo == op = "get_prd_info" /\ Answer(op, Http200(PrdInfo))

\* the probe: one call of client.chat with the single turn of line 66
HealthProbe(name) ==
    /\ pc = "pending"
    /\ op = name
    /\ sent' = <<Turn("user", "test")>>
    /\ calls' = calls + 1
    /\ response' = HealthResponse(provider)
    /\ pc' = "done"
    /\ proc' = ProcessAfter(proc, op)
    /\ UNCHANGED <<op, messages, provider, origin, parsed, spec, fs, http, log, req, writer,
                   session, shown>>

Health == op = "health" /\ HealthProbe(op)
ApiHealth == op = "api_health" /\ HealthProbe(op)

\* one create-project request
ServeCreateProject == pc = "pending" /\ \E body \in ScaffoldBodies : CreateProject(body)

Paths ==
    {<<>>, <<"health">>, <<"chat">>, <<"generate-prd">>, <<"create-project">>,
     <<"chat", "">>, <<"health", "">>, <<"nope">>, <<"nope", "">>, <<"api", "chat">>}

PreflightOrigins == {"http://localhost:8501", "https://app.vercel.app"}

Requests ==
    {Request(m, p, "none", "none") : m \in Methods, p \in Paths}
    \cup {Request("OPTIONS", p, o, "none") : p \in Paths, o \in PreflightOrigins}

BodyEndpoints == {"chat", "generate_prd", "create_project"}

\* the requests without a body, and the probe of api/index.py
InitRoute ==
    /\ pc = "pending"
    /\ \/ /\ http \in Requests
          /\ op = Handler(http)
          /\ op \notin BodyEndpoints
       \/ /\ http = Request("GET", <<"api", "health">>, "none", "none")
          /\ op = "api_health"
    /\ messages = <<>>
    /\ provider \in {[outcome |-> x, content |-> <<"reply">>] :
                        x \in IF op \in {"health", "api_health"} THEN ProviderOutcomes
                              ELSE {"ok"}}
    /\ origin = NoOrigin
    /\ sent = <<>>
    /\ parsed = None
    /\ response = NoResponse
    /\ spec = None
    /\ fs = EmptyFs
    /\ calls = 0
    /\ log = NoLog
    /\ req = NoReq
    /\ writer = NoWriter
    /\ session = NoSession
    /\ shown = NoMessage
    /\ proc = Process

\* generate-prd requests with every conversation, and with no messages field
InitPrdTurns ==
    /\ pc = "pending"
    /\ op = "generate_prd"
    /\ http \in {Request("POST", <<"generate-prd">>, "none", k) : k \in {"json", "no_messages"}}
    /\ messages \in IF http.body = "json" THEN {AsTurns(c) : c \in Conversations}
                    ELSE {<<>>}
    /\ origin = Origin("spec", PlainObject, <<>>, "none", <<>>, 0, <<>>)
    /\ provider \in {[outcome |-> x, content |-> Compose(origin)] : x \in ProviderOutcomes}
    /\ sent = <<>>
    /\ parsed = None
    /\ response = NoResponse
    /\ spec = None
    /\ fs = EmptyFs
    /\ calls = 0
    /\ log = NoLog
    /\ req = NoReq
    /\ writer = NoWriter
    /\ session = NoSession
    /\ shown = NoMessage
    /\ proc = Process

InitServer ==
    \/ InitRoute
    \/ InitChatWith({"json", "no_messages"})
    \/ InitPrd
    \/ InitPrdTurns
    \/ InitScaffold

NextServer ==
    \/ NotFound \/ MethodNotAllowed \/ RedirectSlashes \/ Preflight
    \/ GetChatInfo \/ GetPrdInfo \/ Health \/ ApiHealth
    \/ ChatMain \/ ChatApi \/ GeneratePrd \/ ServeCreateProject

SpecServer == InitServer /\ [][NextServer]_vars

-----------------------------------------------------------------------------
(* Properties of the HTTP surface, checked under SpecServer *)

Handled == pc = "done" /\ op \in {"chat", "generate_prd", "create_project"}

\* the body is what section 6 of the specification gives for the endpoint
BodyAsSpecified ==
    IF op = "create_project" THEN spec \in ScaffoldSpecs ELSE http.body = "json"

DetailString(d) == "error" \in DOMAIN d /\ d.error # ""

DetailList(d) == "errors" \in DOMAIN d /\ d.errors # <<>>

\* the causes of failure: the provider call fails or gives no text, the reply is
\* unparsable or incomplete, a path of the scaffold may not be written
ProviderFault == op \in {"chat", "generate_prd"} /\ provider.outcome # "ok"

ReplyFault ==
    /\ op = "generate_prd" /\ provider.outcome = "ok"
    /\ (parsed = None \/ ~(RequiredKeys \subseteq DOMAIN parsed.o))

FilesystemFault ==
    /\ op = "create_project"
    /\ LET dir == <<"generated_projects", ExpectedSlug(Field(spec, "title").s)>>
       IN  \E p \in fs.denied : p \notin fs.dirs /\ Len(p) > 2 /\ SubSeq(p, 1, 2) = dir

\* C11: every failure while handling POST /chat, /generate-prd or /create-project
\* (provider failure, reply without text, unparsable or incomplete reply, write
\* failure, a body that is not a complete specification) gives HTTP 500 with a
\* detail string and no second provider call.
C11_EveryFailureIs500 ==
    Handled =>
        /\ response.status \in {200, 500}
        /\ ~BodyAsSpecified => response.status = 500
        /\ response.status = 500 =>
              /\ DetailString(response.detail)
              /\ response.body = None
              /\ calls <= 1

\* C11 amended: a failure inside the handler (provider failure, reply without
\* text, unparsable or incomplete reply, write failure) gives HTTP 500 with a
\* detail string, no body and no second provider call; a body that does not fit
\* the model of the endpoint never reaches the handler and gives HTTP 422 with a
\* list of validation errors as detail.
C11_HandlerFailureIs500 ==
    Handled =>
        /\ BodyAsSpecified =>
              /\ response.status \in {200, 500}
              /\ (ProviderFault \/ ReplyFault \/ FilesystemFault) => response.status = 500
              /\ response.status = 500 =>
                    /\ DetailString(response.detail)
                    /\ response.body = None
                    /\ calls <= 1
        /\ ~BodyAsSpecified =>
              /\ response.status = 422
              /\ DetailList(response.detail)
              /\ response.body = None
              /\ calls = 0

\* C11 witness: README.md may not be written; the request fails with HTTP 500 and
\* the error of the write, after the guide was written
C11_Witness ==
    /\ Handled /\ op = "create_project"
    /\ response.status = 500
    /\ response.detail.error = "PermissionError"
    /\ <<"generated_projects", <<"task", "_", "tracker">>, "IMPLEMENTATION_GUIDE.md">>
           \in DOMAIN fs.files

-----------------------------------------------------------------------------
(* Further properties of create-project, checked under SpecScaffold *)

\* os.path.isabs: the path starts at the root
IsAbsolutePath(path) == path # <<>> /\ path[1] = "/"

\* the directory and the files of the scaffold for a title, as section 4.5 names them
ScaffoldDir(title) == <<"generated_projects", ExpectedSlug(title)>>

ScaffoldFiles(title) ==
    {Append(ScaffoldDir(title), n) :
        n \in {"IMPLEMENTATION_GUIDE.md", "PRD.md", "README.md", ".env"}}

ScaffoldDirs(title) ==
    {ScaffoldDir(title) \o d :
        d \in {<<"src">>, <<"src", "frontend">>, <<"src", "backend">>, <<"src", "shared">>,
               <<"docs">>, <<"tests">>}}

C13_Idempotent ==
    [][(log.n >= 1 /\ pc' = "done" /\ spec' = log.spec) =>
          /\ response'.status = 200
          /\ fs'.files[Append(ScaffoldDir(Field(log.spec, "title").s), "README.md")]
                 = log.readme
          /\ fs'.files[Append(ScaffoldDir(Field(log.spec, "title").s), ".env")] = log.env]_vars

\* C13 witness: a specification with a feature has succeeded twice on a directory
\* that existed beforehand, and a request for the other title was served too
C13_Witness ==
    /\ ScaffoldDone /\ response.status = 200
    /\ log.n = 2 /\ spec = log.spec
    /\ Field(spec, "title").s = <<"Task", BLANK, "Tracker">>
    /\ Len(Field(spec, "features").a) >= 1
    /\ <<"generated_projects", <<"task", "_", "tracker">>, "notes.txt">> \in DOMAIN fs.files
    /\ <<"generated_projects", <<"my", "_", "big", "_", "app">> >> \in fs.dirs

\* C14: a create-project changes nothing but the four files of the scaffold and
\* the directories it makes: every other file, in the project directory or
\* outside it, keeps its content, no file or directory disappears, and a
\* successful request leaves the four files and the subdirectories in place.
C14_Frame ==
    [][pc' = "done" =>
          LET title == Field(spec', "title").s
              made == {<<"generated_projects">>, ScaffoldDir(title)} \cup ScaffoldDirs(title)
          IN  /\ \A p \in DOMAIN fs.files \ ScaffoldFiles(title) :
                     p \in DOMAIN fs'.files /\ fs'.files[p] = fs.files[p]
              /\ DOMAIN fs.files \subseteq DOMAIN fs'.files
              /\ DOMAIN fs'.files \subseteq DOMAIN fs.files \cup ScaffoldFiles(title)
              /\ fs.dirs \subseteq fs'.dirs
              /\ fs'.dirs \subseteq fs.dirs \cup made
              /\ response'.status = 200 =>
                     /\ ScaffoldFiles(title) \subseteq DOMAIN fs'.files
                     /\ made \subseteq fs'.dirs]_vars

\* C14 witness: a request succeeded on the directory that existed beforehand: its
\* README.md is replaced, the files it does not write are as they were
C14_Witness ==
    /\ ScaffoldDone /\ response.status = 200
    /\ Field(spec, "title").s = <<"Task", BLANK, "Tracker">>
    /\ LET dir == <<"generated_projects", <<"task", "_", "tracker">> >>
       IN  /\ Append(dir, "notes.txt") \in DOMAIN fs.files
           /\ fs.files[Append(dir, "notes.txt")] = <<"keep">>
           /\ fs.files[dir \o <<"src", "main.py">>] = <<"code">>
           /\ fs.files[<<"server.log">>] = <<"log">>
           /\ fs.files[Append(dir, "README.md")] # [title |-> <<"old">>]

-----------------------------------------------------------------------------
(* Properties of the provider calls and of routing, checked under SpecServer *)

Served == pc = "done"

\* C16: each POST /chat and each POST /generate-prd request with a messages body
\* makes exactly one provider call, whether the call fails, gives no text, or
\* gives a reply that cannot be parsed or is incomplete; POST /create-project
\* makes none.
C16_OneProviderCall ==
    Served =>
        /\ (op \in {"chat", "api_chat", "generate_prd"} /\ http.body = "json") => calls = 1
        /\ op = "create_project" => calls = 0

\* C16 witness: the reply to generate-prd could not be parsed and the request
\* failed after its one call
C16_Witness ==
    /\ Served /\ op = "generate_prd"
    /\ provider.outcome = "ok" /\ parsed = None
    /\ response.status = 500
    /\ calls = 1

\* C17: chat passes the system turn of the Phase Selector and then the request
\* turns, generate-prd the PRD-authoring system turn, the request turns and one
\* final user turn with the format instruction; the request turns keep their
\* order, role and content, none dropped or repeated.
C17_TurnsPassed ==
    (Served /\ http.body = "json") =>
        LET users == Cardinality({i \in 1..Len(messages) : messages[i].role = "user"})
        IN  /\ op \in {"chat", "api_chat"} =>
                  /\ Len(sent) = Len(messages) + 1
                  /\ sent[1] = [role |-> "system",
                                content |-> IF users <= 2 THEN "discovery_prompt"
                                            ELSE "collaborative_prompt"]
                  /\ \A i \in 1..Len(messages) : sent[i + 1] = messages[i]
            /\ op = "generate_prd" =>
                  /\ Len(sent) = Len(messages) + 2
                  /\ sent[1] = [role |-> "system", content |-> "prd_authoring_prompt"]
                  /\ \A i \in 1..Len(messages) : sent[i + 1] = messages[i]
                  /\ sent[Len(sent)] = [role |-> "user", content |-> "prd_format_instruction"]

\* C17 witness: a chat request with a system turn between two other turns
C17_Witness ==
    /\ Served /\ op = "chat"
    /\ Len(messages) = 3
    /\ messages[1].role = "user" /\ messages[2].role = "system"
    /\ messages[3].role = "assistant"
    /\ sent[3] = messages[2]

MainApp == op \notin {"api_chat", "api_health"}

PostOnlyPaths == {<<"chat">>, <<"generate-prd">>, <<"create-project">>}

IsPreflight == http.method = "OPTIONS" /\ http.preflight # "none"

\* the routed paths with a trailing slash added: the router redirects them
WithSlash == {Append(p, "") : p \in PostOnlyPaths \cup {<<"health">>}}

\* the requests that reach the routes and the two exception handlers
Routable == Served /\ MainApp /\ ~IsPreflight /\ http.path \notin WithSlash

\* C18: a path with no route gives 404 with detail Endpoint <path> not found;
\* /chat, /generate-prd and /create-project with a method other than POST, and
\* /health with a method other than GET, give 405.
C18_RoutingErrors ==
    Routable =>
        /\ http.path \notin PostOnlyPaths \cup {<<"health">>} =>
              /\ response.status = 404
              /\ response.detail.error = "Endpoint not found"
              /\ response.detail.text = http.path
        /\ (http.path \in PostOnlyPaths /\ http.method # "POST") => response.status = 405
        /\ (http.path = <<"health">> /\ http.method # "GET") => response.status = 405

\* C18 amended: a path with no route gives 404 with detail Endpoint <path> not
\* found; /create-project with a method other than POST, /chat and
\* /generate-prd with a method other than POST and GET, and /health with a
\* method other than GET give 405; GET on /chat and on /generate-prd gives 200
\* with a usage message.  (Before the routes: a CORS preflight is answered by
\* the middleware with 200 or 400, a routed path plus a trailing slash by a 307
\* redirect to the routed path.)
C18_Routing ==
    /\ Routable =>
          /\ http.path \notin PostOnlyPaths \cup {<<"health">>} =>
                /\ response.status = 404
                /\ response.detail.error = "Endpoint not found"
                /\ response.detail.text = http.path
          /\ (http.path = <<"create-project">> /\ http.method # "POST") =>
                response.status = 405
          /\ (http.path \in {<<"chat">>, <<"generate-prd">>}
                  /\ http.method \notin {"POST", "GET"}) =>
                response.status = 405
          /\ (http.path = <<"health">> /\ http.method # "GET") => response.status = 405
          /\ (http.path \in {<<"chat">>, <<"generate-prd">>} /\ http.method = "GET") =>
                /\ response.status = 200
                /\ "message" \in DOMAIN response.body
    /\ (Served /\ MainApp /\ IsPreflight) => response.status \in {200, 400}
    /\ (Served /\ MainApp /\ ~IsPreflight /\ http.path \in WithSlash) =>
          /\ response.status = 307
          /\ Append(response.body.location, "") = http.path

\* C18 witness: PUT /chat was answered with 405
C18_Witness ==
    /\ Served /\ MainApp
    /\ http.path = <<"chat">> /\ http.method = "PUT"
    /\ response.status = 405

\* C19: GET /health answers 200 with status and service and exactly one of
\* mistral_api and error: healthy with mistral_api when the probe call returns,
\* unhealthy with error when it throws; the endpoint itself never fails.
C19_HealthNeverFails ==
    (Served /\ op \in {"health", "api_health"}) =>
        /\ response.status = 200
        /\ response.body.service = "AI Creative Collaborator"
        /\ provider.outcome = "throws" =>
              /\ DOMAIN response.body = {"status", "service", "error"}
              /\ response.body.status = "unhealthy"
        /\ provider.outcome # "throws" =>
              /\ DOMAIN response.body = {"status", "service", "mistral_api"}
              /\ response.body.status = "healthy"
        /\ calls = 1

\* C19 witness: the probe call threw and /health answered 200, unhealthy
C19_Witness ==
    /\ Served /\ op = "health"
    /\ provider.outcome = "throws"
    /\ response.status = 200
    /\ response.body.status = "unhealthy"

-----------------------------------------------------------------------------
(* The browser client (src/src/frontend/app.py): st.session_state and the   *)
(* events of main().  Every event reruns the script; the requests go to the *)
(* server of main.py, modelled by the response operators above.             *)

MaxUserTurns == 3

\* line 399: Generate PRD is disabled below this number of user turns
PRD_MIN_USER_TURNS == 3

\* lines 30-32, in seconds
CHAT_TIMEOUT == 300
PRD_TIMEOUT == 600
PROJECT_TIMEOUT == 60

\* the timeout= argument of each requests.post (lines 62, 90, 456)
Timeout(operation) ==
    CASE operation = "chat" -> CHAT_TIMEOUT
      [] operation = "generate_prd" -> PRD_TIMEOUT
      [] operation = "create_project" -> PROJECT_TIMEOUT

\* lines 34-43 and 315-316
InitialSession ==
    [messages |-> <<>>, current_phase |-> "ideation", project_spec |-> Obj(NoMembers),
     project_links |-> Obj(NoMembers), project_creation_step |-> 0]

\* requests.post raised: there is no response, only the exception
NoConnection(exception) ==
    [status |-> 0, body |-> None, detail |-> Detail(exception, <<>>, <<>>)]

\* how a request can travel: the server is reached and answers after latency
\* seconds, the connection is refused, or it is not made within the timeout
Deliveries(operation) ==
    {[net |-> "ok", latency |-> l] : l \in {Timeout(operation), Timeout(operation) + 1}}
    \cup {[net |-> "refused", latency |-> 0],
          [net |-> "connect_timeout", latency |-> Timeout(operation) + 1]}

\* what requests.post returns or raises for an answer of the server; the
\* ConnectTimeout of requests is a ConnectionError and a Timeout
Received(operation, answer, delivery) ==
    IF delivery.net = "refused" THEN NoConnection("ConnectionError")
    ELSE IF delivery.net = "connect_timeout" THEN NoConnection("ConnectTimeout")
    ELSE IF delivery.latency > Timeout(operation) THEN NoConnection("ReadTimeout")
    ELSE answer

\* str(e) of the exception requests raised, or raise_for_status raises
ExceptionText(resp) ==
    IF resp.status = 0 THEN [exception |-> resp.detail.error]
    ELSE [exception |-> "HTTPError", status |-> resp.status]

\* one text for every failure of an operation
ShownOneText(operation, resp) ==
    IF resp.status = 200 THEN NoMessage
    ELSE [operation |-> operation, text |-> "Server error", arg |-> None]

\* lines 65-80, 94-113 and 592-593: the st.error the user sees, NoMessage when
\* there is none.  chat_with_ai and generate_prd test status 500 first and
\* catch ConnectionError before Timeout; main catches every Exception of
\* Create Project Now in one clause and shows str(e)
Shown(operation, resp) ==
    IF resp.status = 200 THEN NoMessage
    ELSE IF operation = "create_project"
    THEN [operation |-> operation, text |-> "Error creating project",
          arg |-> ExceptionText(resp)]
    ELSE IF resp.status = 500
    THEN [operation |-> operation, text |-> "Server error", arg |-> resp.detail]
    ELSE IF resp.status = 0 /\ resp.detail.error \in {"ConnectionError", "ConnectTimeout"}
    THEN [operation |-> operation, text |-> "Could not connect to the backend server",
          arg |-> None]
    ELSE IF resp.status = 0
    THEN [operation |-> operation, text |-> "Request timed out", arg |-> None]
    ELSE [operation |-> operation,
          text |-> IF operation = "chat" THEN "Error communicating with backend"
                   ELSE "Error generating PRD",
          arg |-> ExceptionText(resp)]

\* lines 48-55: the turns sent to POST /chat, system turns left out
ChatRequestMessages(msgs) == SelectSeq(msgs, LAMBDA m : m.role # "system")

\* lines 45-80: what the client can get from POST /chat
ChatOutcomes(msgs) ==
    {Received("chat", ChatResponseMain([outcome |-> x, content |-> c]), d) :
        x \in ProviderOutcomes, c \in {<<"reply">>, <<>>}, d \in Deliveries("chat")}

\* a chat turn that is taken back when the request fails
AfterChatTakenBack(s, resp) ==
    IF resp.status = 200
    THEN [s EXCEPT !.messages = @ \o <<Turn("user", <<"prompt">>),
                                       Turn("assistant", resp.body.response)>>]
    ELSE s

\* a chat turn that keeps only the turns of the last exchange
AfterChatLastExchange(s, resp) ==
    [s EXCEPT !.messages =
        <<Turn("user", <<"prompt">>)>>
        \o (IF resp.status = 200 /\ resp.body.response # <<>>
            THEN <<Turn("assistant", resp.body.response)>> ELSE <<>>)]

\* line 380: the user turn is appended before the request is made
WithUserTurn(s) == [s EXCEPT !.messages = Append(@, Turn("user", <<"prompt">>))]

\* lines 378-390: the user turn is appended, the reply when there is one
AfterChat(s, resp) ==
    [s EXCEPT !.messages =
        Append(@, Turn("user", <<"prompt">>))
        \o (IF resp.status = 200 /\ resp.body.response # <<>>
            THEN <<Turn("assistant", resp.body.response)>> ELSE <<>>)]

\* the replies of the provider to generate-prd that the session may meet
PrdReplies ==
    {Compose(Origin("spec", obj, <<>>, f, <<>>, 0, <<>>)) :
        obj \in {PlainObject,
                 SpecObject(<<"Task", BLANK, "Tracker">>, <<"tracks", BLANK, "tasks">>,
                            1, TRUE),
                 Without(PlainObject, {Key("features")})},
        f \in {"none", "tagged"}}

\* lines 82-113: what the client can get from POST /generate-prd
PrdOutcomes ==
    {Received("generate_prd", GeneratePrdResponse(prov), d) :
        prov \in {[outcome |-> "ok", content |-> r] : r \in PrdReplies}
                 \cup {[outcome |-> "throws", content |-> <<>>]},
        d \in Deliveries("generate_prd")}

\* a button that is never disabled
GeneratePrdDisabledNever(s) == FALSE

\* line 399
GeneratePrdDisabled(s) == UserMsgCount(s.messages) < PRD_MIN_USER_TURNS

\* a session that enters the specification phase whatever the call gave
AfterGeneratePrdAlways(s, resp) ==
    [s EXCEPT !.project_spec = IF resp.status = 200 THEN resp.body ELSE @,
              !.current_phase = "specification",
              !.messages = Append(@, Turn("assistant", <<"PRD", "generated">>))]

\* a session that keeps the links of the last session
AfterGeneratePrdWithoutLinks(s, resp) ==
    IF resp.status = 200
    THEN [s EXCEPT !.project_spec = Without(resp.body, {Key("projectLinks")}),
                   !.current_phase = "specification",
                   !.messages = Append(@, Turn("assistant", <<"PRD", "generated">>))]
    ELSE s

\* lines 403-414 with lines 94-106: a response other than 200 gives None and
\* the session stays as it is
AfterGeneratePrd(s, resp) ==
    IF resp.status = 200
    THEN [s EXCEPT !.project_spec = resp.body,
                   !.project_links = resp.body.o[Key("projectLinks")],
                   !.current_phase = "specification",
                   !.messages = Append(@, Turn("assistant", <<"PRD", "generated">>))]
    ELSE s

\* links that replace the projectLinks of the specification
WithLocalLinksOnly(sp) ==
    Obj((Key("projectLinks") :>
            Obj((Key("frontend") :> Str(FRONTEND_URL)) @@ (Key("backend") :> Str(BACKEND_URL))))
        @@ sp.o)

\* lines 444-450: the two local URLs are written into the projectLinks of the
\* specification held by the session
WithLocalLinks(sp) ==
    LET links == IF Key("projectLinks") \in DOMAIN sp.o THEN sp.o[Key("projectLinks")].o
                 ELSE NoMembers
    IN  Obj((Key("projectLinks") :>
                Obj((Key("frontend") :> Str(FRONTEND_URL))
                    @@ (Key("backend") :> Str(BACKEND_URL)) @@ links))
            @@ sp.o)

\* line 463: ~/Documents/cursor_projects/<project_name>
LocalProjectDir(name) == <<"~", "Documents", "cursor_projects", name>>

\* lines 428-431: the names the user can give the project, the slug of the title
\* by default
ProjectNames(sp) == {Slug(Field(sp, "title").s), <<"my_project">>}

\* links that hold the directory the server returned
LocalLinksOfServer(name, resp) ==
    FromRecord([project_dir |-> Str(resp.body.project_dir), frontend |-> Str(FRONTEND_URL),
                backend |-> Str(BACKEND_URL)])

\* lines 561-565
LocalLinks(name, resp) ==
    FromRecord([project_dir |-> Str(LocalProjectDir(name)), frontend |-> Str(FRONTEND_URL),
                backend |-> Str(BACKEND_URL)])

\* lines 453-596: local is what the copy into the user's directory and the start
\* of the editor (lines 464-558) do, "ok" or "raises"; every exception, the one
\* of raise_for_status included, ends in line 594
AfterCreateProject(s, resp, local, name) ==
    IF resp.status = 200 /\ local = "ok"
    THEN [s EXCEPT !.project_spec = WithLocalLinks(@),
                   !.project_links = LocalLinks(name, resp),
                   !.current_phase = "implementation",
                   !.project_creation_step = 0,
                   !.messages = Append(@, Turn("assistant", <<"Project", "created">>))]
    ELSE [s EXCEPT !.project_spec = WithLocalLinks(@), !.project_creation_step = 0]

\* lines 592-593 for an exception of lines 464-558
LocalError ==
    [operation |-> "create_project", text |-> "Error creating project",
     arg |-> [exception |-> "OSError"]]

\* the variables of the server that a client event leaves alone
serverVars == <<pc, provider, origin, sent, parsed, http, calls, log, req, writer, proc>>

ClientOps ==
    {"client", "client_chat", "client_generate_prd", "client_setup", "client_back",
     "client_create_project", "client_reset"}

\* lines 378-390: a chat turn
ClientChat ==
    /\ op \in ClientOps
    /\ UserMsgCount(session.messages) < MaxUserTurns
    /\ messages' = ChatRequestMessages(WithUserTurn(session).messages)
    /\ \E resp \in ChatOutcomes(session.messages) :
          /\ session' = AfterChat(session, resp)
          /\ response' = resp
          /\ shown' = Shown("chat", resp)
    /\ op' = "client_chat"
    /\ UNCHANGED <<serverVars, spec, fs>>

\* lines 397-414: the Generate PRD button
ClientGeneratePrd ==
    /\ session.current_phase = "ideation"
    /\ ~GeneratePrdDisabled(session)
    /\ messages' = session.messages
    /\ \E resp \in PrdOutcomes :
          /\ session' = AfterGeneratePrd(session, resp)
          /\ response' = resp
          /\ shown' = Shown("generate_prd", resp)
    /\ op' = "client_generate_prd"
    /\ UNCHANGED <<serverVars, spec, fs>>

\* lines 421-424: the Setup Cursor Project button
ClientSetup ==
    /\ session.current_phase = "specification"
    /\ session.project_creation_step = 0
    /\ session' = [session EXCEPT !.project_creation_step = 1]
    /\ op' = "client_setup"
    /\ shown' = NoMessage
    /\ UNCHANGED <<serverVars, messages, response, spec, fs>>

\* lines 599-601: the Back button
ClientBack ==
    /\ session.current_phase = "specification"
    /\ session.project_creation_step = 1
    /\ session' = [session EXCEPT !.project_creation_step = 0]
    /\ op' = "client_back"
    /\ shown' = NoMessage
    /\ UNCHANGED <<serverVars, messages, response, spec, fs>>

\* lines 440-596: the Create Project Now button.  A server that is reached
\* runs the handler whether or not the client waits for the answer
ClientCreateProject ==
    /\ session.current_phase = "specification"
    /\ session.project_creation_step = 1
    /\ LET body == WithLocalLinks(session.project_spec)
       IN  \E d \in Deliveries("create_project"), local \in {"ok", "raises"},
              name \in ProjectNames(session.project_spec) :
              LET out == IF d.net = "ok" THEN CreateProjectResult(fs, body)
                         ELSE [fs |-> fs, response |-> NoResponse]
                  resp == Received("create_project", out.response, d)
              IN  /\ session' = AfterCreateProject(session, resp, local, name)
                  /\ response' = resp
                  /\ shown' = IF resp.status = 200 /\ local = "raises" THEN LocalError
                              ELSE Shown("create_project", resp)
                  /\ fs' = out.fs
                  /\ spec' = body
    /\ op' = "client_create_project"
    /\ UNCHANGED <<serverVars, messages>>

\* lines 603-606 and 34-43: every key is deleted and the rerun initializes again
ClientReset ==
    /\ op \in ClientOps
    /\ session' = InitialSession
    /\ op' = "client_reset"
    /\ shown' = NoMessage
    /\ UNCHANGED <<serverVars, messages, response, spec, fs>>

InitClient ==
    /\ pc = "client"
    /\ op = "client"
    /\ messages = <<>>
    /\ provider = [outcome |-> "ok", content |-> <<>>]
    /\ origin = NoOrigin
    /\ sent = <<>>
    /\ parsed = None
    /\ response = NoResponse
    /\ spec = None
    /\ fs = EmptyFs
    /\ http = Request("GET", <<>>, "none", "none")
    /\ calls = 0
    /\ log = NoLog
    /\ req = NoReq
    /\ writer = NoWriter
    /\ session = InitialSession
    /\ shown = NoMessage
    /\ proc = Process

NextClient ==
    \/ ClientChat \/ ClientGeneratePrd \/ ClientSetup \/ ClientBack
    \/ ClientCreateProject \/ ClientReset

SpecClient == InitClient /\ [][NextClient]_vars

\* C15: current_phase changes only from ideation to specification, on a Generate
\* PRD whose call succeeded, from specification to implementation, on a Create
\* Project whose call succeeded, and back to ideation on Reset Session; chat
\* turns and failed actions leave it as it is.
C15_PhaseMachine ==
    [][session'.current_phase # session.current_phase =>
          \/ /\ session.current_phase = "ideation"
             /\ session'.current_phase = "specification"
             /\ op' = "client_generate_prd"
             /\ response'.status = 200
          \/ /\ session.current_phase = "specification"
             /\ session'.current_phase = "implementation"
             /\ op' = "client_create_project"
             /\ response'.status = 200
          \/ /\ session'.current_phase = "ideation"
             /\ op' = "client_reset"]_vars

\* C15 witness: the session has reached implementation by a Create Project whose
\* call succeeded, PRD and project messages in its history
C15_Witness ==
    /\ op = "client_create_project"
    /\ session.current_phase = "implementation"
    /\ response.status = 200
    /\ Len(session.messages) >= 5

-----------------------------------------------------------------------------
(* Two create-project requests for one title at the same time.  The handler *)
(* (lines 363-503) has no await, so one event loop runs it from its first   *)
(* line to its last; server processes that share the working directory (the *)
(* second instance that lines 508-517 start on port 8001) run it side by    *)
(* side and interleave at their system calls.  Nothing in the handler locks *)
(* the directory.  The runs of one process are the interleavings in which   *)
(* one request ends before the other begins.                                *)

\* bodies for one title: two descriptions, one a beginning of the other, with
\* and without features and technologies
RaceSpecs ==
    {ScaffoldSpec(<<"Task", BLANK, "Tracker">>, d, nf, nt, nf) :
        d \in {<<"tracks", BLANK, "tasks">>, <<"tracks">>},
        nf \in {0, MaxItems}, nt \in {0, MaxItems}}

\* `with open(path, "w") as f: f.write(text)` is two system calls: open with
\* O_TRUNC, and one write at offset 0 when the file is closed
RECURSIVE RaceSteps(_)
RaceSteps(steps) ==
    IF steps = <<>> THEN <<>>
    ELSE (IF Head(steps).kind = "write"
          THEN <<[Head(steps) EXCEPT !.kind = "open"], Head(steps)>>
          ELSE <<Head(steps)>>)
         \o RaceSteps(Tail(steps))

\* what decides the length of the text a template gives for a title: the
\* lexemes of the description and the number of lines of each list
Extent(sp, name) ==
    LET d == Len(Field(sp, "description").s)
        nf == Len(Field(sp, "features").a)
        nt == Len(Field(sp, "technologies").a)
        nc == Len(Field(Field(sp, "architecture"), "components").a)
        np == Len(Field(sp, "implementationPlan").a)
    IN  CASE name = GUIDE -> <<d, nf, nt, nc, np>>
          [] name = PRD -> <<d>>
          [] name = README -> <<d, nf>>
          [] OTHER -> <<>>

Covers(a, b) == \A k \in DOMAIN a : a[k] >= b[k]

\* a file as its bytes: none after O_TRUNC, a text, or a text written over the
\* beginning of the longer text of request rest, whose end remains
Whole(text) == [text |-> text]
Torn(text, rest) == [text |-> text, rest |-> rest]

\* the request whose text gives the file its length, 0 for an empty file
LengthOwner(f, w, path) ==
    IF "size" \in DOMAIN f.files[path] THEN 0
    ELSE IF "rest" \in DOMAIN f.files[path] THEN f.files[path].rest
    ELSE w[path]

\* write(2) at offset 0 through a descriptor of its own: the bytes beyond the
\* text written stay; when the extents do not order the two lengths, either
\* outcome
RaceWrite(f, w, rq, i, st) ==
    LET name == st.path[Len(st.path)]
        old == LengthOwner(f, w, st.path)
        mine == Extent(rq[i].body, name)
        theirs == Extent(rq[old].body, name)
    IN  IF old = 0 \/ old = i \/ Covers(mine, theirs)
        THEN {WriteFile(f, st.path, Whole(st.content))}
        ELSE IF Covers(theirs, mine)
        THEN {WriteFile(f, st.path, Torn(st.content, old))}
        ELSE {WriteFile(f, st.path, Whole(st.content)),
              WriteFile(f, st.path, Torn(st.content, old))}

\* the filesystems a step that raised nothing can leave
RaceApply(f, w, rq, i, st) ==
    CASE st.kind = "open" -> {WriteFile(f, st.path, Truncated)}
      [] st.kind = "write" -> RaceWrite(f, w, rq, i, st)
      [] OTHER -> {Apply(f, st)}

RaceRequest(body) == [body |-> body, at |-> 1, response |-> NoResponse]

Running(i) == pc = "race" /\ req[i].response = NoResponse

NextStep(i) == RaceSteps(Steps(req[i].body))[req[i].at]

raceFrame == <<pc, op, messages, provider, origin, sent, parsed, response, spec, http, calls,
               log, session, shown, proc>>

\* one system call, or the evaluation of the guide template, of request i
RaceAdvance(i) ==
    /\ Running(i)
    /\ req[i].at <= Len(RaceSteps(Steps(req[i].body)))
    /\ StepError(fs, req[i].body, NextStep(i)) = ""
    /\ fs' \in RaceApply(fs, writer, req, i, NextStep(i))
    /\ writer' = IF NextStep(i).kind = "write" THEN (NextStep(i).path :> i) @@ writer
                 ELSE writer
    /\ req' = [req EXCEPT ![i].at = @ + 1]
    /\ UNCHANGED raceFrame

\* lines 501-503: the step raises and the request answers 500
RaceFail(i) ==
    /\ Running(i)
    /\ req[i].at <= Len(RaceSteps(Steps(req[i].body)))
    /\ StepError(fs, req[i].body, NextStep(i)) # ""
    /\ req' = [req EXCEPT ![i].response =
                  Http500(Detail(StepError(fs, req[i].body, NextStep(i)), <<>>, <<>>))]
    /\ UNCHANGED <<raceFrame, fs, writer>>

\* lines 495-499
RaceReturn(i) ==
    /\ Running(i)
    /\ req[i].at > Len(RaceSteps(Steps(req[i].body)))
    /\ req' = [req EXCEPT ![i].response =
                  Http200(ScaffoldResult(ProjectDir(Field(req[i].body, "title").s)))]
    /\ UNCHANGED <<raceFrame, fs, writer>>

InitRace ==
    /\ pc = "race"
    /\ op = "create_project"
    /\ messages = <<>>
    /\ provider = [outcome |-> "ok", content |-> <<>>]
    /\ origin = NoOrigin
    /\ sent = <<>>
    /\ parsed = None
    /\ response = NoResponse
    /\ spec = None
    /\ fs = EmptyFs
    /\ http = Post(<<"create-project">>)
    /\ calls = 0
    /\ log = NoLog
    /\ \E a \in RaceSpecs, b \in RaceSpecs :
          a # b /\ req = <<RaceRequest(a), RaceRequest(b)>>
    /\ writer = NoWriter
    /\ session = NoSession
    /\ shown = NoMessage
    /\ proc = Process

NextRace == \E i \in 1..2 : RaceAdvance(i) \/ RaceFail(i) \/ RaceReturn(i)

SpecRace == InitRace /\ [][NextRace]_vars

RaceDone == pc = "race" /\ \A i \in 1..2 : req[i].response # NoResponse

\* the text request i writes into the file called name
RaceText(i, name) ==
    LET steps == Steps(req[i].body)
        k == CHOOSE j \in 1..Len(steps) :
                 steps[j].kind = "write" /\ steps[j].path[Len(steps[j].path)] = name
    IN  steps[k].content

\* C20: when two create-project requests for one title and different
\* specifications have both completed, both have answered success and each of
\* IMPLEMENTATION_GUIDE.md, PRD.md, README.md and .env holds exactly the text
\* of the request that wrote it last.
C20_LastWriterWins ==
    RaceDone =>
        /\ \A i \in 1..2 : req[i].response.status = 200
        /\ \A name \in {GUIDE, PRD, README, ENV} :
              LET path == Append(ProjectDir(<<"Task", BLANK, "Tracker">>), name)
              IN  /\ path \in DOMAIN writer
                  /\ fs.files[path] = Whole(RaceText(writer[path], name))

-----------------------------------------------------------------------------
(* Properties of the client, checked under SpecClient *)

ClientOp(operation) ==
    CASE operation = "chat" -> "client_chat"
      [] operation = "generate_prd" -> "client_generate_prd"
      [] operation = "create_project" -> "client_create_project"

\* the last request ran into its timeout
TimedOut == response.status = 0 /\ response.detail.error \in {"ConnectTimeout", "ReadTimeout"}

\* answers of the server with status 500
ServerFailures ==
    {Http500(Detail(e, <<>>, <<>>)) : e \in {"ProviderError", "IndexError", "NameError"}}

\* C21: for chat, generate PRD and create project, a request that exceeds its
\* timeout (300 s, 600 s, 60 s) is reported to the user, with a message other
\* than the one shown for an answer with HTTP 500.
C21_TimeoutDistinct ==
    \A operation \in {"chat", "generate_prd", "create_project"} :
        (op = ClientOp(operation) /\ TimedOut)
        => /\ shown # NoMessage
           /\ \A r \in ServerFailures : shown # Shown(operation, r)

\* C21 witness: Create Project Now gave up after 60 s on a server that was
\* reached and has written the scaffold
C21_Witness ==
    /\ op = "client_create_project"
    /\ response = NoConnection("ReadTimeout")
    /\ shown # NoMessage
    /\ fs.files # <<>>

\* C22: the create-project action, successful or failed, leaves the
\* specification of the session at the value the generate-PRD call gave it, and
\* the body the server receives is that value.
C22_SpecNotMutated ==
    [][op' = "client_create_project"
       => /\ session'.project_spec = session.project_spec
          /\ spec' = session.project_spec]_vars

\* C22 witness: a create-project action has succeeded and the specification
\* still carries the three links of the generate-PRD call
C22_Witness ==
    /\ op = "client_create_project"
    /\ response.status = 200
    /\ session.current_phase = "implementation"
    /\ session.project_spec = spec
    /\ Field(spec, "projectLinks") = ProjectLinks(Field(spec, "title").s)

\* C23: every session step other than Reset Session leaves the messages it
\* found as a prefix of the messages it leaves.
C23_AppendOnly ==
    [][op' # "client_reset"
       => /\ Len(session'.messages) >= Len(session.messages)
          /\ SubSeq(session'.messages, 1, Len(session.messages)) = session.messages]_vars

\* C23 witness: a chat turn without reply, a generated PRD and a failed Create
\* Project lie behind a session whose messages are all still there
C23_Witness ==
    /\ op = "client_create_project"
    /\ response.status # 200
    /\ Len(session.messages) = 2 * PRD_MIN_USER_TURNS
    /\ UserMsgCount(session.messages) = PRD_MIN_USER_TURNS

\* C27: the client sends a generate-PRD request only from the ideation phase
\* and only with at least 3 user turns in the history it sends, a history for
\* which the phase selector of /chat chooses the collaborative prompt.
C27_PrdGate ==
    [][op' = "client_generate_prd"
       => /\ session.current_phase = "ideation"
          /\ messages' = session.messages
          /\ UserMsgCount(messages') >= 3
          /\ SystemMessage(messages') = COLLABORATIVE]_vars

\* C27 witness: a generate-PRD request went out with exactly three user turns
C27_Witness ==
    /\ op = "client_generate_prd"
    /\ response.status = 200
    /\ UserMsgCount(messages) = 3
    /\ session.current_phase = "specification"

\* C28: a chat turn whose request fails (status 500, timeout, no connection)
\* adds the user's turn and nothing else to the history, and the turn counts
\* among the user turns from then on.
C28_FailedChatKeepsTurn ==
    [][(op' = "client_chat" /\ response'.status # 200)
       => /\ session'.messages = Append(session.messages, Turn("user", <<"prompt">>))
          /\ messages' = session'.messages
          /\ UserMsgCount(session'.messages) = UserMsgCount(session.messages) + 1]_vars

\* C28 witness: three chat turns failed one after the other, and the three
\* consecutive user turns they left have opened Generate PRD
C28_Witness ==
    /\ op = "client_generate_prd"
    /\ Len(messages) = 3
    /\ \A i \in 1..3 : messages[i].role = "user"

InPhase(phase) == pc = "client" /\ session.current_phase = phase

\* the session holds a specification as generate-prd returns it
HoldsSpecification ==
    /\ session.project_spec # Obj(NoMembers)
    /\ RequiredKeys \cup {Key("projectLinks")} \subseteq DOMAIN session.project_spec.o

SessionSpecInvariant ==
    /\ (InPhase("specification") \/ InPhase("implementation")) => HoldsSpecification
    /\ InPhase("ideation")
       => session.project_spec = Obj(NoMembers) /\ session.project_links = Obj(NoMembers)

\* C29 as stated: in specification and implementation project_spec holds a
\* complete specification with projectLinks, in implementation project_links
\* holds the project directory of the successful create-project call, in
\* ideation both are empty.
C29_SessionInvariant ==
    /\ SessionSpecInvariant
    /\ InPhase("implementation")
       => Field(session.project_links, "project_dir")
              = Str(ProjectDir(Field(session.project_spec, "title").s))

\* C29 amended: the directory project_links holds in implementation is the
\* local one, ~/Documents/cursor_projects/<project name>, that the Create
\* Project action filled after the call succeeded; the directory the call
\* returned is not kept.
C29_SessionHoldsLocalDir ==
    /\ SessionSpecInvariant
    /\ InPhase("implementation")
       => /\ \E name \in ProjectNames(session.project_spec) :
                 Field(session.project_links, "project_dir") = Str(LocalProjectDir(name))
          /\ Field(session.project_links, "project_dir")
                 # Str(ProjectDir(Field(session.project_spec, "title").s))

\* C29 witness: a session that entered implementation with a project name the
\* user chose
C29_Witness ==
    /\ InPhase("implementation")
    /\ op = "client_create_project"
    /\ HoldsSpecification
    /\ Field(session.project_links, "project_dir") = Str(LocalProjectDir(<<"my_project">>))

-----------------------------------------------------------------------------
(* The two chat handlers against each other, checked under SpecChat *)

\* what the handler that did not serve the request answers to it
OtherChatResponse ==
    IF op = "chat" THEN ChatResponseApi(provider) ELSE ChatResponseMain(provider)

\* C30: POST /chat of main.py and POST /api/chat of api/index.py do the same
\* with a body that carries messages: the same system prompt, the same turns
\* passed to the provider, the same {response} when the call succeeds, and
\* status 500 with a detail string in the same cases.
C30_ChatHandlersEquivalent ==
    (pc = "done" /\ op \in {"chat", "api_chat"})
    => /\ sent = <<SystemMessage(messages)>> \o messages
       /\ calls = 1
       /\ response.status = OtherChatResponse.status
       /\ response.status \in {200, 500}
       /\ response.status = 200 => response = OtherChatResponse
       /\ response.status = 500
          => DetailString(response.detail) /\ DetailString(OtherChatResponse.detail)

\* C30 witness: a reply without choices, which /api/chat answers with its own
\* detail text and /chat with the text of its outer handler, both with 500
C30_Witness ==
    /\ pc = "done" /\ op = "api_chat"
    /\ provider.outcome = "no_choices"
    /\ UserMsgCount(messages) = 3
    /\ response.status = 500
    /\ response.detail # OtherChatResponse.detail

(* create-project on titles that hold path syntax, checked under SpecPaths *)

\* the longest title of the path requests, in lexemes
MaxTitleLen == 3

\* titles of letters, spaces, slashes and double dots, the empty title included
PathTitles == SeqsUpTo({"a", BLANK, "/", ".."}, MaxTitleLen)

PathSpecs ==
    {ScaffoldSpec(t, <<"tracks", BLANK, "tasks">>, 1, nt, 1) :
        t \in PathTitles, nt \in {0, MaxItems}}

\* one request on an empty working directory
PathRequest ==
    /\ pc = "pending"
    /\ \E sp \in PathSpecs : CreateProject(sp)

InitPaths == InitScaffold /\ fs = EmptyFs

NextPaths == PathRequest

SpecPaths == InitPaths /\ [][NextPaths]_vars

\* a directory right under generated_projects
DirectChild(dir) ==
    /\ Len(dir) = 2
    /\ dir[1] = PROJECTS_DIR
    /\ dir[2] # <<"..">>

\* C25: for every title, the directory create-project creates and writes into
\* is a direct child of generated_projects, and every directory and file of
\* the request lies in it.
C25_DirectChild ==
    ScaffoldDone
    => LET dir == ProjectDir(Field(spec, "title").s)
       IN  /\ DirectChild(dir)
           /\ \A p \in (fs.dirs \ {<<PROJECTS_DIR>>}) \cup DOMAIN fs.files :
                  Len(p) >= Len(dir) /\ SubSeq(p, 1, Len(dir)) = dir

\* the four ways a title leaves the place: the empty title, a title that climbs
\* with "..", an absolute title, a title with a directory inside
C25_EmptyTitle ==
    ScaffoldDone /\ Field(spec, "title").s = <<>> /\ response.status = 200
    /\ <<PROJECTS_DIR, GUIDE>> \in DOMAIN fs.files

C25_Climbs ==
    ScaffoldDone /\ Field(spec, "title").s = <<"..", "/", "a">> /\ response.status = 200
    /\ <<PROJECTS_DIR, <<"..">>, <<"a">>, GUIDE>> \in DOMAIN fs.files

C25_Absolute ==
    ScaffoldDone /\ Field(spec, "title").s = <<"/", "a">> /\ response.status = 200
    /\ <<"/", <<"a">>, GUIDE>> \in DOMAIN fs.files

C25_Nested ==
    ScaffoldDone /\ Field(spec, "title").s = <<"a", "/", "a">> /\ response.status = 200
    /\ <<PROJECTS_DIR, <<"a">>, <<"a">>, GUIDE>> \in DOMAIN fs.files

(* create-project on specifications of the wrong shape, checked under SpecShapes *)

\* a feature whose name holds a lone surrogate
SurrogateFeature ==
    FromRecord([name |-> Str(<<"Add", SURROGATE>>), description |-> Word("adds"),
                priority |-> Word("High")])

\* an item and the same item without each of the keys
Lacking(item, keys) == {item} \cup {Without(item, {Key(k)}) : k \in keys}

ShapedSpec(feature, technologies, component, phase) ==
    FromRecord(
        [title |-> Str(<<"Task", BLANK, "Tracker">>),
         description |-> Str(<<"tracks", BLANK, "tasks">>),
         features |-> Arr(<<feature>>),
         technologies |-> Arr(technologies),
         architecture |->
             FromRecord([type |-> Word("Client-Server"), components |-> Arr(<<component>>)]),
         implementationPlan |-> Arr(<<phase>>)])

ShapedSpecs ==
    {ShapedSpec(f, t, c, p) :
        f \in Lacking(SampleFeature, {"name", "priority", "description"})
               \cup {SurrogateFeature},
        t \in {<<>>} \cup {<<x>> : x \in Lacking(SampleTechnology, {"name", "purpose"})},
        c \in Lacking(SampleComponent, {"name", "purpose", "interactions"}),
        p \in Lacking(SamplePhase, {"phase", "duration", "tasks"})
               \cup {FromRecord([phase |-> Word("MVP"), duration |-> Word("1w"),
                                 tasks |-> Arr(<<x>>)]) :
                         x \in Lacking(SampleTask, {"name", "duration"})}}

\* one request, on an empty working directory or on a project that is there
ShapeRequest ==
    /\ pc = "pending"
    /\ \E sp \in ShapedSpecs : CreateProject(sp)

InitShapes == InitScaffold /\ fs.denied = {}

NextShapes == ShapeRequest

SpecShapes == InitShapes /\ [][NextShapes]_vars

\* some item of the list lacks one of the keys
SomeLacks(items, keys) ==
    \E i \in 1..Len(items) : \E k \in keys : Key(k) \notin DOMAIN items[i].o

\* a feature, technology, component, phase or task lacks a key the templates read
ShapeWrong(sp) ==
    \/ SomeLacks(Field(sp, "features").a, {"name", "priority", "description"})
    \/ SomeLacks(Field(sp, "technologies").a, {"name", "purpose"})
    \/ SomeLacks(Field(Field(sp, "architecture"), "components").a,
                 {"name", "purpose", "interactions"})
    \/ SomeLacks(Field(sp, "implementationPlan").a, {"phase", "duration", "tasks"})
    \/ \E i \in 1..Len(Field(sp, "implementationPlan").a) :
           /\ Key("tasks") \in DOMAIN Field(sp, "implementationPlan").a[i].o
           /\ SomeLacks(Field(Field(sp, "implementationPlan").a[i], "tasks").a,
                        {"name", "duration"})

\* the request left every file as it was and made no directory but the
\* project's own
NothingWritten ==
    /\ fs'.files = fs.files
    /\ fs'.dirs \subseteq fs.dirs \cup {<<PROJECTS_DIR>>, ProjectDir(Field(spec', "title").s)}

\* C26 as stated: a specification of the wrong shape fails before any of the
\* four files is created or overwritten, and no failure of a request leaves
\* files of a scaffold behind.
C26_NoPartialScaffold ==
    [][(pc' = "done" /\ op = "create_project")
       => /\ ShapeWrong(spec') => response'.status = 500
          /\ response'.status = 500 => NothingWritten]_vars

\* C26, amended: a specification of the wrong shape fails before any of the
\* four files is created or overwritten; a specification of the right shape
\* with a text that cannot be encoded fails at the write of
\* IMPLEMENTATION_GUIDE.md, which it leaves empty, with no other file written.
C26_ShapeFailureWritesNothing ==
    [][(pc' = "done" /\ op = "create_project")
       => /\ ShapeWrong(spec') => response'.status = 500 /\ NothingWritten
          /\ (response'.status = 500 /\ ~ShapeWrong(spec') /\ ~NothingWritten)
             => LET guide == Append(ProjectDir(Field(spec', "title").s), GUIDE)
                IN  /\ response'.detail.error = "UnicodeEncodeError"
                    /\ fs'.files[guide] = Truncated
                    /\ \A p \in DOMAIN fs'.files \ {guide} :
                           p \in DOMAIN fs.files /\ fs'.files[p] = fs.files[p]]_vars

\* C26 witness: a task without its duration, on a project directory that holds
\* a README.md, which is still the old one after the failed request
C26_Witness ==
    /\ ScaffoldDone
    /\ response.status = 500
    /\ response.detail.error = "KeyError"
    /\ Key("tasks") \in DOMAIN Field(spec, "implementationPlan").a[1].o
    /\ SomeLacks(Field(Field(spec, "implementationPlan").a[1], "tasks").a, {"duration"})
    /\ ~SomeLacks(Field(spec, "features").a, {"name", "priority", "description"})
    /\ Field(spec, "technologies").a = <<>>
    /\ fs.files = PreExistingFs.files

(* Requests one after the other in one server process, checked under SpecSequence *)

\* what arrives with a request: the handler it is for, its turns, and what the
\* provider will answer to the call it makes
Arrival(operation, path, msgs, orig, prov) ==
    [op |-> operation, http |-> Post(path), messages |-> msgs, origin |-> orig,
     provider |-> prov]

Arrivals ==
    {Arrival(o, IF o = "chat" THEN <<"chat">> ELSE <<"api", "chat">>, AsTurns(c), NoOrigin,
             [outcome |-> x, content |-> <<"reply">>]) :
        o \in {"chat", "api_chat"}, c \in {<<"user">>, <<"user", "assistant", "user">>},
        x \in ProviderOutcomes}
    \cup {Arrival("generate_prd", <<"generate-prd">>, <<Turn("user", "idea")>>, o,
                  [outcome |-> "ok", content |-> Compose(o)]) :
             o \in {Origin("spec", PlainObject, <<>>, "none", <<>>, 0, <<>>),
                    Origin("spec", PlainObject, <<"Here">>, "tagged", <<>>, 0, <<>>)}}
    \cup {Arrival("generate_prd", <<"generate-prd">>, <<Turn("user", "idea")>>, NoOrigin,
                  [outcome |-> x, content |-> <<>>]) : x \in {"throws", "no_choices"}}
    \cup {Arrival("create_project", <<"create-project">>, <<>>, NoOrigin,
                  [outcome |-> "ok", content |-> <<>>])}

\* the bodies of the create-project requests of the sequence
SequenceSpecs ==
    {ScaffoldSpec(t, <<"tracks", BLANK, "tasks">>, 1, nt, 1) :
        t \in Titles, nt \in {0, MaxItems}}

\* the next request reaches the process after the one before was answered: the
\* names inside a handler are new with every call, the globals and the
\* filesystem are what the requests before left
Receive ==
    /\ pc = "done"
    /\ \E a \in Arrivals :
           /\ op' = a.op
           /\ http' = a.http
           /\ messages' = a.messages
           /\ origin' = a.origin
           /\ provider' = a.provider
    /\ pc' = "pending"
    /\ sent' = <<>>
    /\ parsed' = None
    /\ response' = NoResponse
    /\ spec' = None
    /\ calls' = 0
    /\ UNCHANGED <<fs, log, req, writer, session, shown, proc>>

SequenceCreateProject == pc = "pending" /\ \E sp \in SequenceSpecs : CreateProject(sp)

InitSequence ==
    /\ pc = "pending"
    /\ \E a \in Arrivals :
           /\ op = a.op
           /\ http = a.http
           /\ messages = a.messages
           /\ origin = a.origin
           /\ provider = a.provider
    /\ sent = <<>>
    /\ parsed = None
    /\ response = NoResponse
    /\ spec = None
    /\ fs = EmptyFs
    /\ calls = 0
    /\ log = NoLog
    /\ req = NoReq
    /\ writer = NoWriter
    /\ session = NoSession
    /\ shown = NoMessage
    /\ proc = Process

NextSequence == Receive \/ ChatMain \/ ChatApi \/ GeneratePrd \/ SequenceCreateProject

SpecSequence == InitSequence /\ [][NextSequence]_vars

\* what a request leaves: the answer, the call to the provider, the files
Outcome == <<response, sent, calls, fs>>

\* what a server that has just started leaves on the same request, with the
\* same reply of the provider, on the same filesystem
FirstOutcome(operation, msgs, prov, body, files) ==
    CASE operation = "chat" ->
            <<ChatResponseMain(prov), ChatCalls(msgs, prov)[1], Len(ChatCalls(msgs, prov)),
              files>>
      [] operation = "api_chat" ->
            <<ChatResponseApi(prov), ChatCalls(msgs, prov)[1], Len(ChatCalls(msgs, prov)),
              files>>
      [] operation = "generate_prd" ->
            <<GeneratePrdResponse(prov), PrdCalls(msgs, prov)[1], Len(PrdCalls(msgs, prov)),
              files>>
      [] operation = "create_project" ->
            <<CreateProjectResult(files, body).response, <<>>, 0,
              CreateProjectResult(files, body).fs>>

====
